---- MODULE Spec2Model ----
(***************************************************************************)
(* vyperdatum: the datum pipeline compiler (pipeline.py), the compound CRS *)
(* container (vypercrs.py) and the transform orchestrator (core.py).       *)
(*                                                                         *)
(* Text is modelled as a sequence of tokens.  A token is a piece of a      *)
(* Python string that the code never looks inside of: every find, replace, *)
(* split and "in" test of the source lands on token boundaries.  A blank   *)
(* is the token " ".                                                       *)
(***************************************************************************)
EXTENDS Integers, Sequences, FiniteSets, TLC

VARIABLES
    datum_definition,   \* pipeline.datum_definition, the module-level table
    pcall,              \* the last call of a pipeline.py function and its result
    vcrs,               \* a VyperPipelineCRS object
    crs_call,           \* the last method called on vcrs, what it raised, and the calls so far
    vcore,              \* a VyperCore object
    plan,               \* the calls still to be made on vcore, and their arguments
    touts,              \* what the transform_dataset calls made so far gave back
    datum_data,         \* a DatumData object
    dd_call,            \* the last method called on datum_data, what it raised, the calls so far
    vraster,            \* the raster fields of a VyperRaster object
    applied             \* what the last apply_sep call on vraster gave back

crs_vars == <<vcrs, crs_call>>
core_vars == <<vcore, plan, touts>>
dd_vars == <<datum_data, dd_call>>
raster_vars == <<vraster, applied>>
vars == <<datum_definition, pcall, vcrs, crs_call, vcore, plan, touts, datum_data, dd_call,
          vraster, applied>>

-----------------------------------------------------------------------------
(* Bounds of the model *)

\* longest step list handed to compare_datums / inverse_datum_def directly
MaxLen == 3

-----------------------------------------------------------------------------
(* Python str / list primitives on token sequences *)

Min(a, b) == IF a < b THEN a ELSE b

\* F of the value of e, with e evaluated once
Bind(e, F(_)) == CHOOSE r \in {F(x) : x \in {e}} : TRUE

\* str.find(pat, start), 1-based; 0 stands for Python's -1
RECURSIVE StrFind(_, _, _)
StrFind(s, pat, i) ==
    IF i + Len(pat) - 1 > Len(s) THEN 0
    ELSE IF SubSeq(s, i, i + Len(pat) - 1) = pat THEN i
    ELSE StrFind(s, pat, i + 1)

\* pat in s
StrIn(pat, s) == StrFind(s, pat, 1) # 0

\* str.replace(pat, rep): every non-overlapping occurrence, left to right
RECURSIVE StrReplace(_, _, _)
StrReplace(s, pat, rep) ==
    IF Len(s) = 0 THEN <<>>
    ELSE IF Len(s) >= Len(pat) /\ SubSeq(s, 1, Len(pat)) = pat
         THEN rep \o StrReplace(SubSeq(s, Len(pat) + 1, Len(s)), pat, rep)
         ELSE <<Head(s)>> \o StrReplace(Tail(s), pat, rep)

\* str.split(sep) for a separator pattern
RECURSIVE StrSplit(_, _)
StrSplit(s, sep) ==
    LET i == StrFind(s, sep, 1)
    IN  IF i = 0 THEN <<s>>
        ELSE <<SubSeq(s, 1, i - 1)>> \o StrSplit(SubSeq(s, i + Len(sep), Len(s)), sep)

\* sep.join(parts)
RECURSIVE StrJoin(_, _)
StrJoin(sep, parts) ==
    IF Len(parts) = 0 THEN <<>>
    ELSE IF Len(parts) = 1 THEN parts[1]
    ELSE parts[1] \o sep \o StrJoin(sep, Tail(parts))

\* str.strip(): blanks off both ends
RECURSIVE StrStrip(_)
StrStrip(s) ==
    IF Len(s) = 0 THEN s
    ELSE IF Head(s) = " " THEN StrStrip(Tail(s))
    ELSE IF s[Len(s)] = " " THEN StrStrip(SubSeq(s, 1, Len(s) - 1))
    ELSE s

\* str.lower() of one token
LowerTok(t) ==
    CASE t = "MLLW" -> "mllw"
      [] t = "MHW" -> "mhw"
      [] t = "TSS" -> "tss"
      [] t = "Ellipse" -> "ellipse"
      [] t = "NOAA" -> "noaa"
      [] t = "Chart" -> "chart"
      [] t = "Datum" -> "datum"
      [] t = "Height" -> "height"
      [] t = "NAVD88" -> "navd88"
      [] t = "NAD83(2011)" -> "nad83(2011)"
      [] t = "ITRF2014" -> "itrf2014"
      [] t = "EGM2008" -> "egm2008"
      [] OTHER -> t

\* str.lower()
StrLower(s) == [i \in 1..Len(s) |-> LowerTok(s[i])]

\* list.remove(x): the first occurrence goes
RECURSIVE ListRemove(_, _)
ListRemove(l, x) ==
    IF Len(l) = 0 THEN l
    ELSE IF Head(l) = x THEN Tail(l)
    ELSE <<Head(l)>> \o ListRemove(Tail(l), x)

\* l[::-1]
ListReverse(l) == [i \in 1..Len(l) |-> l[Len(l) + 1 - i]]

\* x in l, for a list
ListHas(l, x) == \E i \in 1..Len(l) : l[i] = x

\* no element twice in l
NoRepeats(l) == \A i, j \in 1..Len(l) : l[i] = l[j] => i = j

-----------------------------------------------------------------------------
(* pipeline.py: the datum table *)

StepGeoid == <<"+proj=vgridshift", " ", "grids=", "GEOID">>
StepTssInv == <<"+inv", " ", "+proj=vgridshift", " ", "grids=", "REGION", "\\tss.gtx">>
StepMllw == <<"+proj=vgridshift", " ", "grids=", "REGION", "\\mllw.gtx">>
StepMhw == <<"+proj=vgridshift", " ", "grids=", "REGION", "\\mhw.gtx">>
StepMtl == <<"+proj=vgridshift", " ", "grids=", "REGION", "\\mtl.gtx">>
StepDtl == <<"+proj=vgridshift", " ", "grids=", "REGION", "\\dtl.gtx">>
StepHudson == <<"+proj=vgridshift", " ", "grids=", "REGION", "\\HudsonRiverDatum.tif">>

\* the keys of datum_definition, in the order the dict literal lists them
DatumKeys ==
    << <<"ellipse">>, <<"geoid">>, <<"navd88">>, <<"tss">>, <<"mllw">>,
       <<"noaa", " ", "chart", " ", "datum">>, <<"mhw">>,
       <<"noaa", " ", "chart", " ", "height">>,
       <<"usace", " ", "hudson", " ", "river", " ", "datum">>,
       <<"mtl">>, <<"dtl">> >>

DatumKeySet == {DatumKeys[i] : i \in 1..Len(DatumKeys)}

DatumDefinitionTable ==
    [k \in DatumKeySet |->
        CASE k = <<"ellipse">> -> <<>>
          [] k = <<"geoid">> -> <<StepGeoid>>
          [] k = <<"navd88">> -> <<StepGeoid>>
          [] k = <<"tss">> -> <<StepGeoid, StepTssInv>>
          [] k = <<"mllw">> -> <<StepGeoid, StepTssInv, StepMllw>>
          [] k = <<"noaa", " ", "chart", " ", "datum">> -> <<StepGeoid, StepTssInv, StepMllw>>
          [] k = <<"mhw">> -> <<StepGeoid, StepTssInv, StepMhw>>
          [] k = <<"noaa", " ", "chart", " ", "height">> -> <<StepGeoid, StepTssInv, StepMhw>>
          [] k = <<"usace", " ", "hudson", " ", "river", " ", "datum">> -> <<StepGeoid, StepHudson>>
          [] k = <<"mtl">> -> <<StepGeoid, StepTssInv, StepMtl>>
          [] k = <<"dtl">> -> <<StepGeoid, StepTssInv, StepDtl>>]

-----------------------------------------------------------------------------
(* pipeline.py: the functions *)

\* results of a call: a value, None, or a raised exception
Ok(v) == [kind |-> "ok", val |-> v]
None == [kind |-> "None", val |-> <<>>]
Raise(e) == [kind |-> "raise", val |-> <<e>>]

\* _validate_datum_names: the exception it raises, or "" when it returns
validate_datum_names(from_datum, to_datum) ==
    IF from_datum \notin DOMAIN datum_definition THEN "ValueError"
    ELSE IF to_datum \notin DOMAIN datum_definition THEN "ValueError"
    ELSE ""

\* the remove_these list of compare_datums: the entries equal at the same index
RECURSIVE RemoveThese(_, _, _)
RemoveThese(in_datum_def, out_datum_def, n) ==
    IF n > Min(Len(in_datum_def), Len(out_datum_def)) THEN <<>>
    ELSE (IF in_datum_def[n] = out_datum_def[n] THEN <<in_datum_def[n]>> ELSE <<>>)
         \o RemoveThese(in_datum_def, out_datum_def, n + 1)

\* for rmve in remove_these: l.remove(rmve)
RECURSIVE RemoveEach(_, _)
RemoveEach(l, remove_these) ==
    IF Len(remove_these) = 0 THEN l
    ELSE RemoveEach(ListRemove(l, Head(remove_these)), Tail(remove_these))

\* a compare_datums that leaves both lists as they are
compare_datums_keep(in_datum_def, out_datum_def) == <<in_datum_def, out_datum_def>>

compare_datums(in_datum_def, out_datum_def) ==
    LET remove_these == RemoveThese(in_datum_def, out_datum_def, 1)
    IN  <<RemoveEach(in_datum_def, remove_these), RemoveEach(out_datum_def, remove_these)>>

\* a layer of inverse_datum_def that is given the flag whether it carries one or not
InverseLayerPrepend(layer) == StrJoin(<<" ">>, << <<"+inv">>, layer >>)

\* one layer of inverse_datum_def
InverseLayer(layer) ==
    IF StrIn(<<"+inv">>, layer) THEN StrReplace(layer, <<"+inv", " ">>, <<>>)
    ELSE StrJoin(<<" ">>, << <<"+inv">>, layer >>)

inverse_datum_def(datum_def) ==
    LET rev == ListReverse(datum_def)
    IN  [i \in 1..Len(rev) |-> InverseLayer(rev[i])]

\* a get_regional_pipeline that validates the names before it compares them
get_regional_pipeline_validate_first(from_datum0, to_datum0, region_name, geoid_name) ==
    LET from_datum == StrLower(from_datum0)
        to_datum == StrLower(to_datum0)
    IN  IF validate_datum_names(from_datum, to_datum) # ""
        THEN Raise(validate_datum_names(from_datum, to_datum))
        ELSE IF from_datum = to_datum THEN None
        ELSE Ok(<<"+proj=pipeline">>)

get_regional_pipeline(from_datum0, to_datum0, region_name, geoid_name) ==
    LET from_datum == StrLower(from_datum0)
        to_datum == StrLower(to_datum0)
    IN  IF from_datum = to_datum THEN None
        ELSE IF validate_datum_names(from_datum, to_datum) # ""
        THEN Raise(validate_datum_names(from_datum, to_datum))
        ELSE
            LET reduced == compare_datums(datum_definition[from_datum], datum_definition[to_datum])
                reversed_input_def == inverse_datum_def(reduced[1])
                transformation_def == << <<"+proj=pipeline">> >> \o reversed_input_def \o reduced[2]
                pipeline == StrJoin(<<" ", "+step", " ">>, transformation_def)
                regional_pipeline == StrReplace(pipeline, <<"REGION">>, region_name)
            IN  Ok(StrReplace(regional_pipeline, <<"GEOID">>, geoid_name))

\* a list handed on without list.copy(): the table holds the list that is worked on
list_shared(held, worked) == worked

\* list.copy(): the table keeps the list it holds, whatever is done to the copy
list_copy(held, worked) == held

\* datum_definition after get_regional_pipeline ran: compare_datums removes the
\* common steps from the two lists it is handed, in place
definitions_after(from_datum0, to_datum0) ==
    LET from_datum == StrLower(from_datum0)
        to_datum == StrLower(to_datum0)
    IN  IF from_datum = to_datum \/ validate_datum_names(from_datum, to_datum) # ""
        THEN datum_definition
        ELSE Bind(compare_datums(datum_definition[from_datum], datum_definition[to_datum]),
                  LAMBDA reduced :
                    [k \in DOMAIN datum_definition |->
                        IF k = to_datum THEN list_copy(datum_definition[k], reduced[2])
                        ELSE IF k = from_datum THEN list_copy(datum_definition[k], reduced[1])
                        ELSE datum_definition[k]])

-----------------------------------------------------------------------------
(* Inputs of the pipeline functions *)

\* datum names a caller may pass: the registered ones, case variants, unknown ones
DatumNames ==
    DatumKeySet \cup
    { <<"MLLW">>, <<"Ellipse">>, <<"TSS">>, <<"NOAA", " ", "Chart", " ", "Datum">>,
      <<"nad83">>, <<"mlw">> }

\* VDatum region folder names
RegionNames == { <<"NCcoast11_8301">>, <<"NCinner11_8301">>, <<"MDVAchb12_8301">> }

\* geoid grid paths, as in vypercrs.geoid_frame_lookup
Geoid12b == <<"core\\", "geoid", "12b", "\\g2012bu0.gtx">>
XGeoid20b == <<"core\\", "x", "geoid", "20b", "\\conuspac.gtx">>
GeoidNames == {Geoid12b, XGeoid20b}

\* the step strings the table is made of
StepAlphabet == {StepGeoid, StepTssInv, StepMllw}

RECURSIVE ListsUpTo(_, _)
ListsUpTo(S, n) ==
    IF n = 0 THEN {<<>>}
    ELSE LET shorter == ListsUpTo(S, n - 1)
         IN  shorter \cup {Append(l, x) : l \in shorter, x \in S}

StepLists == ListsUpTo(StepAlphabet, MaxLen)

-----------------------------------------------------------------------------
(* core.DatumData, as far as the CRS container reads it *)

\* DatumData.vdatum_version
VdatumVersion == <<"vdatum_4.1.2">>

\* vyperdatum.__version__
VyperdatumVersion == <<"__version__">>

\* DatumData.get_geoid_name: the geoid grid of a region
get_geoid_name(region_name) ==
    IF region_name = <<"MDVAchb12_8301">> THEN XGeoid20b ELSE Geoid12b

\* DatumData.get_geoid_frame: the frame that geoid grid is defined in
get_geoid_frame(region_name) ==
    IF get_geoid_name(region_name) = XGeoid20b THEN <<"ITRF2014">> ELSE <<"NAD83(2011)">>

\* vypercrs.geoid_possibilities, in list order
geoid_possibilities ==
    << <<"geoid", "12b">>, <<"x", "geoid", "16b">>, <<"x", "geoid", "17b">>,
       <<"x", "geoid", "18b">>, <<"x", "geoid", "19b">>, <<"x", "geoid", "20b">> >>

-----------------------------------------------------------------------------
(* pyproj CRS objects.  A CRS and its WKT text carry the same content: the  *)
(* name, the axis direction and the REMARK text of a vertical CRS, the      *)
(* name and EPSG code of a horizontal one.                                  *)

PyNone == <<"None">>
NoCRS == [kind |-> "None"]
HorizCRS(name, epsg) == [kind |-> "horizontal", name |-> name, epsg |-> epsg]
Geog3D(epsg) == [kind |-> "3d", epsg |-> epsg]
VertCRS(name, dir, remarks) == [kind |-> "vertical", name |-> name, dir |-> dir, remarks |-> remarks]
CompoundOf(h, v) == [kind |-> "compound", hori |-> h, vert |-> v]

\* CRS.from_epsg for the codes used here
from_epsg(code) ==
    CASE code = 6318 -> HorizCRS(<<"NAD83(2011)">>, 6318)
      [] code = 8999 -> HorizCRS(<<"ITRF2008">>, 8999)
      [] code = 9000 -> HorizCRS(<<"ITRF2014">>, 9000)
      [] code = 26914 -> HorizCRS(<<"NAD83", " ", "/", " ", "UTM", " ", "zone", " ", "14N">>, 26914)
      [] code = 6319 -> Geog3D(6319)
      [] code = 7912 -> Geog3D(7912)
      [] code = 4979 -> Geog3D(4979)
      [] code = 4978 -> [kind |-> "geocentric", epsg |-> 4978]
      [] code = 5866 -> VertCRS(<<"MLLW", " ", "depth">>, "down", <<>>)
      [] OTHER -> NoCRS

-----------------------------------------------------------------------------
(* vypercrs.VerticalPipelineCRS *)

\* VerticalPipelineCRS.__init__
NewVerticalPipelineCRS(vert_datum_name) ==
    [datum_name |-> vert_datum_name, dir |-> "up", regions |-> <<>>, pipelines |-> <<>>,
     version |-> <<>>, vdatum_version_string |-> VdatumVersion]

\* remarks[strt:end] with end the result of a find: not found is Python's -1
SliceTo(s, strt, end) ==
    IF end = 0 THEN SubSeq(s, strt, Len(s) - 1) ELSE SubSeq(s, strt, end - 1)

StripEach(parts) == [i \in 1..Len(parts) |-> StrStrip(parts[i])]

\* VerticalCRS._wkt_pipeline_remarks on the text inside REMARK["..."]
wkt_pipeline_remarks(remarks) ==
    IF Len(remarks) = 0
    THEN [raised |-> "", regions |-> <<>>, pipelines |-> <<>>,
          vdatversion |-> PyNone, version |-> PyNone]
    ELSE
        LET vdatversion_start == StrFind(remarks, <<"vdatum=">>, 1)
            vdatversion ==
                IF vdatversion_start # 0
                THEN SliceTo(remarks, vdatversion_start + 1,
                             StrFind(remarks, <<",">>, vdatversion_start + 1))
                ELSE PyNone
            version_start == StrFind(remarks, <<"vyperdatum=">>, 1)
            version ==
                IF version_start # 0
                THEN SliceTo(remarks, version_start + 1,
                             StrFind(remarks, <<",">>, version_start + 1))
                ELSE PyNone
            regions_start == StrFind(remarks, <<"regions=">>, 1)
            regions_data ==
                SliceTo(remarks, regions_start + 2,
                        StrFind(remarks, <<"]", ",">>, regions_start + 2))
            pipeline_start == StrFind(remarks, <<"pipelines=">>, 1)
            pipeline_data ==
                SliceTo(remarks, pipeline_start + 2,
                        StrFind(remarks, <<"]", ",">>, pipeline_start + 2))
        IN  IF regions_start = 0 \/ pipeline_start = 0
            THEN [raised |-> "ValueError", regions |-> <<>>, pipelines |-> <<>>,
                  vdatversion |-> vdatversion, version |-> version]
            ELSE [raised |-> "", regions |-> StripEach(StrSplit(regions_data, <<",">>)),
                  pipelines |-> StripEach(StrSplit(pipeline_data, <<";">>)),
                  vdatversion |-> vdatversion, version |-> version]

\* VerticalPipelineCRS.from_wkt: [raised, vp]
vp_from_wkt(vp, wkt) ==
    LET named == [vp EXCEPT !.datum_name = wkt.name, !.dir = wkt.dir]
    IN  IF Len(wkt.remarks) = 0 THEN [raised |-> "", vp |-> named]
        ELSE Bind(wkt_pipeline_remarks(wkt.remarks), LAMBDA parsed :
                IF parsed.raised # "" THEN [raised |-> parsed.raised, vp |-> named]
                ELSE [raised |-> "",
                      vp |-> [named EXCEPT !.regions = parsed.regions,
                                           !.pipelines = parsed.pipelines,
                                           !.vdatum_version_string = parsed.vdatversion,
                                           !.version = parsed.version]])

\* VerticalPipelineCRS.pipeline_string
pipeline_string(vp) == <<"[">> \o StrJoin(<<";">>, vp.pipelines) \o <<"]">>

\* VerticalPipelineCRS.regions_string
regions_string(vp) == <<"[">> \o StrJoin(<<",">>, vp.regions) \o <<"]">>

\* VerticalPipelineCRS.base_datum
base_datum(vp) ==
    IF Len(vp.regions) = 0 THEN <<"[">>
    ELSE <<"[">> \o StrJoin(<<",">>, [i \in 1..Len(vp.regions) |-> get_geoid_frame(vp.regions[i])])
         \o <<"]">>

\* VerticalPipelineCRS.build_remarks(pretty=False): the text inside REMARK["..."]
build_remarks(vp) ==
    <<"vdatum=">> \o vp.vdatum_version_string \o <<",", "vyperdatum=">> \o VyperdatumVersion
    \o <<",", "base_datum=">> \o base_datum(vp) \o <<",", "regions=">> \o regions_string(vp)
    \o <<",", "pipelines=">> \o pipeline_string(vp)

\* VerticalPipelineCRS.to_wkt
vp_to_wkt(vp) ==
    VertCRS(vp.datum_name, vp.dir, IF Len(vp.pipelines) > 0 THEN build_remarks(vp) ELSE <<>>)

\* VerticalPipelineCRS.add_pipeline
add_pipeline(vp, pipeline, region) ==
    IF ~ListHas(vp.regions, region)
    THEN [vp EXCEPT !.regions = Append(@, region), !.pipelines = Append(@, pipeline)]
    ELSE vp

-----------------------------------------------------------------------------
(* vypercrs: building the vertical CRS that carries regions and pipelines *)

\* the registered names found in the lowered name, in table order
RECURSIVE GuessList(_, _)
GuessList(keys, lowered) ==
    IF Len(keys) = 0 THEN <<>>
    ELSE (IF StrIn(Head(keys), lowered) THEN <<Head(keys)>> ELSE <<>>)
         \o GuessList(Tail(keys), lowered)

\* guess_vertical_datum_from_string
guess_vertical_datum_from_string(vertical_datum_name) ==
    LET guess_list == GuessList(DatumKeys, StrLower(vertical_datum_name))
    IN  IF Len(guess_list) = 1 THEN Ok(guess_list[1])
        ELSE IF Len(guess_list) = 0 THEN Ok(<<>>)
        ELSE Raise("ValueError")

\* the loop of build_valid_vert_crs over the regions: [raised, vp]
RECURSIVE add_region_pipelines(_, _, _)
add_region_pipelines(vp, datum, regions) ==
    IF Len(regions) = 0 THEN [raised |-> "", vp |-> vp]
    ELSE
        LET region == Head(regions)
        IN  Bind(IF datum = <<"ellipse">> THEN Ok(<<"[", "]">>)
                 ELSE get_regional_pipeline(<<"ellipse">>, datum, region, get_geoid_name(region)),
                 LAMBDA new_pipeline :
                    IF new_pipeline.kind = "raise"
                    THEN [raised |-> new_pipeline.val[1], vp |-> vp]
                    ELSE Bind(IF new_pipeline.kind = "ok" /\ Len(new_pipeline.val) > 0
                              THEN add_pipeline(vp, new_pipeline.val, region) ELSE vp,
                              LAMBDA added : add_region_pipelines(added, datum, Tail(regions))))

\* the geoids of geoid_possibilities found in the pipeline text, in list order
RECURSIVE GeoidsIn(_, _)
GeoidsIn(gds, pipeline) ==
    IF Len(gds) = 0 THEN <<>>
    ELSE (IF StrFind(pipeline, Head(gds), 1) # 0 THEN <<Head(gds)>> ELSE <<>>)
         \o GeoidsIn(Tail(gds), pipeline)

\* build_valid_vert_crs: [raised, vert, datum, pipeline]
build_valid_vert_crs(crs, regions) ==
    LET failed(e) == [raised |-> e, vert |-> NoCRS, datum |-> <<>>, pipeline |-> PyNone]
        renamed(vp, datum, pipeline) ==
            Bind(GeoidsIn(geoid_possibilities, pipeline), LAMBDA geoids :
                IF datum = <<"geoid">> /\ Len(geoids) > 1 THEN failed("NotImplementedError")
                ELSE IF datum = <<"geoid">> /\ Len(geoids) = 0 THEN failed("ValueError")
                ELSE [raised |-> "",
                      vert |-> vp_to_wkt(IF datum = <<"geoid">>
                                         THEN [vp EXCEPT !.datum_name = geoids[1]] ELSE vp),
                      datum |-> datum, pipeline |-> pipeline])
        filled(vp, datum) ==
            Bind(add_region_pipelines(vp, datum, regions), LAMBDA added :
                IF added.raised # "" THEN failed(added.raised)
                ELSE Bind(pipeline_string(added.vp), LAMBDA pipeline :
                        renamed(added.vp, datum, pipeline)))
    IN  Bind(guess_vertical_datum_from_string(crs.name), LAMBDA guess :
            IF guess.kind = "raise" THEN failed(guess.val[1])
            ELSE Bind(vp_from_wkt(NewVerticalPipelineCRS(<<>>), crs), LAMBDA loaded :
                    IF loaded.raised # "" THEN failed(loaded.raised)
                    ELSE IF Len(guess.val) = 0
                    THEN [raised |-> "", vert |-> NoCRS, datum |-> guess.val, pipeline |-> PyNone]
                    ELSE filled(loaded.vp, guess.val)))

-----------------------------------------------------------------------------
(* vypercrs.VyperPipelineCRS *)

\* VyperPipelineCRS.__init__ without new_crs
NewVyperPipelineCRS ==
    [is_valid |-> FALSE, ccrs |-> NoCRS, vert |-> NoCRS, hori |-> NoCRS, regions |-> <<>>,
     vyperdatum_str |-> PyNone, pipeline_str |-> PyNone, is_height |-> "None"]

\* 'word' in remarks, for the four words _valid_vert looks for
WordInRemarks(word, remarks) ==
    \E i \in 1..Len(remarks) :
        CASE word = "regions" -> remarks[i] = "regions="
          [] word = "pipeline" -> remarks[i] \in {"pipelines=", "+proj=pipeline"}
          [] word = "vyperdatum" -> remarks[i] = "vyperdatum="
          [] word = "base_datum" -> remarks[i] = "base_datum="
          [] OTHER -> FALSE

\* VyperPipelineCRS._valid_vert
valid_vert(self) ==
    /\ self.vert.kind = "vertical"
    /\ Len(self.vert.remarks) > 0
    /\ WordInRemarks("regions", self.vert.remarks)
    /\ WordInRemarks("pipeline", self.vert.remarks)
    /\ WordInRemarks("vyperdatum", self.vert.remarks)
    /\ WordInRemarks("base_datum", self.vert.remarks)

\* the second half of _update_and_build_compound
mark_compound(self) ==
    IF self.hori.kind # "None" /\ self.vert.kind # "None" /\ valid_vert(self)
    THEN [self EXCEPT !.ccrs = CompoundOf(self.hori, self.vert), !.is_valid = TRUE,
                      !.is_height = IF self.vert.dir = "up" THEN "True" ELSE "False"]
    ELSE self

\* VyperPipelineCRS._update_and_build_compound: [raised, self]
update_and_build_compound(self) ==
    IF self.vert.kind # "None" /\ Len(self.regions) > 0
    THEN Bind(build_valid_vert_crs(self.vert, self.regions), LAMBDA built :
            IF built.raised # "" THEN [raised |-> built.raised, self |-> self]
            ELSE Bind([self EXCEPT !.vert = built.vert, !.vyperdatum_str = built.datum,
                                   !.pipeline_str = built.pipeline],
                      LAMBDA rebuilt : [raised |-> "", self |-> mark_compound(rebuilt)]))
    ELSE [raised |-> "", self |-> mark_compound(self)]

\* VyperPipelineCRS._set_single: [raised, self]
set_single(self, crs) ==
    LET hori3d == CASE crs.epsg = 6319 -> 6318
                    [] crs.epsg = 7911 -> 8999
                    [] crs.epsg = 7912 -> 9000
                    [] OTHER -> 0
        placed ==
            CASE crs.kind = "compound" ->
                    [self EXCEPT !.ccrs = crs, !.hori = crs.hori, !.vert = crs.vert]
              [] crs.kind = "3d" ->
                    [self EXCEPT !.hori = from_epsg(hori3d),
                                 !.vert = vp_to_wkt(NewVerticalPipelineCRS(
                                             from_epsg(hori3d).name \o <<"_", "ellipse">>))]
              [] crs.kind = "vertical" -> [self EXCEPT !.vert = crs]
              [] OTHER -> [self EXCEPT !.hori = crs]
    IN  IF crs.kind = "geocentric" THEN [raised |-> "ValueError", self |-> self]
        ELSE IF crs.kind = "3d" /\ hori3d = 0 THEN [raised |-> "NotImplementedError", self |-> self]
        ELSE IF crs.kind = "horizontal" THEN [raised |-> "", self |-> placed]
        ELSE Bind(vp_from_wkt(NewVerticalPipelineCRS(<<>>), placed.vert), LAMBDA tmp_vert :
                IF tmp_vert.raised # "" THEN [raised |-> tmp_vert.raised, self |-> placed]
                ELSE IF Len(tmp_vert.vp.regions) > 0
                THEN [raised |-> "", self |-> [placed EXCEPT !.regions = tmp_vert.vp.regions]]
                ELSE [raised |-> "", self |-> placed])

\* the entries of new_crs: an EPSG code, a datum name, a WKT text
IntEntry(code) == [t |-> "int", code |-> code]
StrEntry(text) == [t |-> "str", text |-> text]
WktEntry(crs) == [t |-> "wkt", crs |-> crs]

\* the pyproj CRS one entry of new_crs stands for: [raised, crs]
entry_crs(self, entry) ==
    CASE entry.t = "str" ->
            IF StrLower(entry.text) \in DatumKeySet
            THEN [raised |-> "",
                  crs |-> vp_to_wkt(NewVerticalPipelineCRS(
                             IF entry.text = <<"ellipse">> /\ self.hori.kind # "None"
                             THEN self.hori.name \o <<"_", "ellipse">> ELSE entry.text))]
            ELSE [raised |-> "CRSError", crs |-> NoCRS]
      [] entry.t = "wkt" -> [raised |-> "", crs |-> entry.crs]
      [] entry.t = "int" ->
            IF from_epsg(entry.code) = NoCRS THEN [raised |-> "CRSError", crs |-> NoCRS]
            ELSE [raised |-> "", crs |-> from_epsg(entry.code)]
      [] OTHER -> [raised |-> "ValueError", crs |-> NoCRS]

\* the loop of set_crs over the entries: [raised, self]
RECURSIVE set_entries(_, _)
set_entries(self, new_crs) ==
    IF Len(new_crs) = 0 THEN [raised |-> "", self |-> self]
    ELSE Bind(entry_crs(self, Head(new_crs)), LAMBDA made :
            IF made.raised # "" THEN [raised |-> made.raised, self |-> self]
            ELSE Bind(set_single(self, made.crs), LAMBDA placed :
                    IF placed.raised # "" THEN placed
                    ELSE set_entries(placed.self, Tail(new_crs))))

\* VyperPipelineCRS.set_crs: [raised, self]; new_crs is the tuple, regions <<>> when not given
set_crs(self, new_crs, regions) ==
    IF Len(new_crs) > 2 THEN [raised |-> "ValueError", self |-> self]
    ELSE Bind(set_entries(self, new_crs), LAMBDA done :
            IF done.raised # "" THEN done
            ELSE Bind(IF Len(regions) > 0 THEN [done.self EXCEPT !.regions = regions]
                      ELSE done.self,
                      LAMBDA given : update_and_build_compound(given)))

\* VyperPipelineCRS.update_regions: [raised, self]
update_regions(self, regions) ==
    update_and_build_compound([self EXCEPT !.regions = regions])

\* VyperPipelineCRS.to_wkt: the compound CRS as text, PyNone when not valid
crs_to_wkt(self) == IF self.is_valid THEN [t |-> "wkt", crs |-> self.ccrs] ELSE [t |-> "None"]

-----------------------------------------------------------------------------
(* The VDatum grids and the PROJ engine, as far as transform_dataset sees them *)

\* z values: a number, inf (outside the coverage of a grid) or nan (not written)
Num(n) == [k |-> "num", v |-> n]
Inf == [k |-> "inf", v |-> 0]
NaN == [k |-> "nan", v |-> 0]

\* the place of a region in the VDatum directory
RegionNumber(region_name) ==
    CASE region_name = <<"NCcoast11_8301">> -> 1
      [] region_name = <<"NCinner11_8301">> -> 2
      [] region_name = <<"MDVAchb12_8301">> -> 3
      [] OTHER -> 0

\* the points of the data the tidal grids of a region cover; the two NC regions
\* overlap at point 1, point 3 lies in no region
Coverage(region_name) ==
    CASE region_name = <<"NCcoast11_8301">> -> {1, 2}
      [] region_name = <<"NCinner11_8301">> -> {1}
      [] region_name = <<"MDVAchb12_8301">> -> {2}
      [] OTHER -> {}

\* grid files absent from the PROJ data directory
MissingGrids == { <<"MDVAchb12_8301", "\\mhw.gtx">> }

\* the shift a grid holds, the same at every point it covers
GridOffset(grid) ==
    LET r == RegionNumber(<<grid[1]>>)
        file == grid[Len(grid)]
    IN  CASE grid = Geoid12b -> 30
          [] grid = XGeoid20b -> 37
          [] file = "\\tss.gtx" -> 10 * r
          [] file = "\\mllw.gtx" -> 3 * r + 1
          [] file = "\\mhw.gtx" -> 5 * r + 2
          [] file = "\\mtl.gtx" -> r
          [] file = "\\dtl.gtx" -> 2 * r + 50
          [] OTHER -> 7 * r + 100

\* the points a grid covers: the geoid grids cover all of the data
GridCovers(grid, pt) ==
    RegionNumber(<<grid[1]>>) = 0 \/ pt \in Coverage(<<grid[1]>>)

\* DatumData.uncertainties: per region and tidal grid, and per geoid
Uncertainty(region_name, key) ==
    LET r == RegionNumber(region_name)
    IN  CASE key = <<"tss">> -> r
          [] key = <<"mllw">> -> 10 * r
          [] key = <<"mhw">> -> 20 * r
          [] key = <<"mtl">> -> 30 * r
          [] key = <<"dtl">> -> 40 * r
          [] OTHER -> 0

UncertaintyKeys == { <<"tss">>, <<"mhhw">>, <<"mhw">>, <<"mlw">>, <<"mllw">>, <<"dtl">>, <<"mtl">> }

GeoidUncertainty == 100

\* DatumData.uncertainties[geoid], the conus sigma of each geoid model of the sigma file
GeoidSigma(geoid) ==
    GeoidUncertainty
    + 100 * ((CHOOSE i \in 1..Len(geoid_possibilities) : geoid_possibilities[i] = geoid) - 1)

\* np.where([pipeline_string.find(gd) for gd in geoid_possibilities] != -1)[0]: the
\* list is compared with -1 as a whole, the test is the one value True, found at 0
gd_index(pipeline) == <<0>>

\* the words of a pipeline string, as str.split() gives them
PipelineParts(pipeline) == StrSplit(pipeline, <<" ">>)

\* the grid of one step of a pipeline, <<>> when the step names none
StepGrid(step) ==
    LET at == StrFind(step, <<"grids=">>, 1)
    IN  IF at = 0 THEN <<>> ELSE SubSeq(step, at + 1, Len(step))

\* one vgridshift step on one z: add the shift, subtract it when inverted
RunStep(step, pt, z) ==
    LET grid == StepGrid(step)
    IN  IF Len(grid) = 0 \/ z.k # "num" THEN z
        ELSE IF ~GridCovers(grid, pt) THEN Inf
        ELSE IF StrIn(<<"+inv">>, step) THEN Num(z.v - GridOffset(grid))
        ELSE Num(z.v + GridOffset(grid))

RECURSIVE RunSteps(_, _, _)
RunSteps(steps, pt, z) ==
    IF Len(steps) = 0 THEN z
    ELSE RunSteps(Tail(steps), pt, RunStep(Head(steps), pt, z))

\* VyperCore._run_pipeline: Transformer.from_pipeline(pipeline).transform on the batch
run_pipeline(pts, pipeline, z) ==
    LET steps == StrSplit(pipeline, <<" ", "+step", " ">>)
    IN  [i \in 1..Len(z) |-> RunSteps(steps, pts[i], z[i])]

-----------------------------------------------------------------------------
(* vypercrs.get_transformation_pipeline *)

\* the grids named in the pipeline, in order
RECURSIVE GridList(_)
GridList(parts) ==
    IF Len(parts) = 0 THEN <<>>
    ELSE (IF Len(Head(parts)) > 0 /\ Head(Head(parts)) = "grids="
          THEN <<Tail(Head(parts))>> ELSE <<>>) \o GridList(Tail(parts))

\* is_valid_regional_pipeline: `valid` is first assigned inside the loop over the grids
is_valid_regional_pipeline(pipeline) ==
    LET grid_list == GridList(PipelineParts(pipeline))
    IN  IF Len(grid_list) = 0 THEN Raise("UnboundLocalError")
        ELSE Ok(\A i \in 1..Len(grid_list) : grid_list[i] \notin MissingGrids)

\* get_transformation_pipeline for two VyperPipelineCRS: [raised, pipeline, valid_pipeline]
get_transformation_pipeline(in_crs, out_crs, region, geoid_name) ==
    LET in_def_str == in_crs.vyperdatum_str
        out_def_str == out_crs.vyperdatum_str
        failed(e) == [raised |-> e, pipeline |-> None, valid_pipeline |-> FALSE]
    IN  IF in_def_str \notin DatumKeySet THEN failed("NotImplementedError")
        ELSE IF ~ListHas(in_crs.regions, region) /\ in_def_str # <<"ellipse">>
        THEN failed("NotImplementedError")
        ELSE IF out_def_str \notin DatumKeySet THEN failed("NotImplementedError")
        ELSE IF ~ListHas(out_crs.regions, region) /\ out_def_str # <<"ellipse">>
        THEN failed("NotImplementedError")
        ELSE Bind(get_regional_pipeline(in_def_str, out_def_str, region, geoid_name),
                  LAMBDA pipeline :
                    IF pipeline.kind = "raise" THEN failed(pipeline.val[1])
                    ELSE IF pipeline.kind = "None" \/ Len(pipeline.val) = 0
                    THEN [raised |-> "", pipeline |-> pipeline, valid_pipeline |-> TRUE]
                    ELSE Bind(is_valid_regional_pipeline(pipeline.val), LAMBDA valid :
                            IF valid.kind = "raise" THEN failed(valid.val[1])
                            ELSE [raised |-> "", pipeline |-> pipeline,
                                  valid_pipeline |-> valid.val]))

-----------------------------------------------------------------------------
(* core.VyperCore *)

\* VyperCore.__init__
NewVyperCore ==
    [in_crs |-> NewVyperPipelineCRS, out_crs |-> NewVyperPipelineCRS, regions |-> <<>>,
     pipelines |-> <<>>, min_x |-> FALSE, geographic_min_x |-> FALSE,
     geographic_extents |-> <<>>]

\* VyperCore._get_output_uncertainty: [raised, val]
get_output_uncertainty(self, region) ==
    LET outdatum == self.out_crs.vyperdatum_str
        indatum == self.in_crs.vyperdatum_str
        flat == {<<"ellipse">>, <<"geoid">>, <<"navd88">>}
        geoid_part == IF indatum = <<"ellipse">> /\ outdatum # <<"ellipse">>
                      THEN GeoidSigma(geoid_possibilities[gd_index(self.out_crs.pipeline_str)[1] + 1]) ELSE 0
        tss_part == IF indatum \in flat /\ outdatum \notin flat
                    THEN Uncertainty(region, <<"tss">>) ELSE 0
        srch_string == CASE outdatum = <<"noaa", " ", "chart", " ", "datum">> -> <<"mllw">>
                         [] outdatum = <<"noaa", " ", "chart", " ", "height">> -> <<"mhw">>
                         [] OTHER -> outdatum
        has_grid == outdatum \notin (flat \cup {<<"tss">>})
    IN  IF self.out_crs.pipeline_str = PyNone THEN [raised |-> "", val |-> 0]
        ELSE IF has_grid /\ srch_string \notin UncertaintyKeys
        THEN [raised |-> "KeyError", val |-> 0]
        ELSE [raised |-> "",
              val |-> geoid_part + tss_part
                      + (IF has_grid THEN Uncertainty(region, srch_string) ELSE 0)]

\* VyperCore.set_region_by_bounds, the bounds meeting the regions of `found`: [raised, self]
set_region_by_bounds(self, found) ==
    Bind(update_regions(self.in_crs, found), LAMBDA ins :
        IF ins.raised # ""
        THEN [raised |-> ins.raised, self |-> [self EXCEPT !.regions = found, !.in_crs = ins.self]]
        ELSE Bind(update_regions(self.out_crs, found), LAMBDA outs :
                [raised |-> outs.raised,
                 self |-> [self EXCEPT !.regions = found, !.in_crs = ins.self,
                                       !.out_crs = outs.self]]))

\* the attributes VyperCore.__init__ and the classes it derives from give an object
VyperCoreAttributes ==
    { "silent", "datum_data", "min_x", "min_y", "max_x", "max_y", "geographic_min_x",
      "geographic_min_y", "geographic_max_x", "geographic_max_y", "in_crs", "out_crs",
      "logger", "_regions", "_geoid_frame", "pipelines", "regions" }

\* the regions setter of VyperCore, given a list: [raised, self]
regions_setter(self, new_regions) ==
    Bind([self EXCEPT !.regions = new_regions], LAMBDA stored :
        IF "_in_crs" \notin VyperCoreAttributes
        THEN [raised |-> "AttributeError", self |-> stored]
        ELSE Bind(update_regions(stored.in_crs, new_regions), LAMBDA ins :
                IF ins.raised # ""
                THEN [raised |-> ins.raised, self |-> [stored EXCEPT !.in_crs = ins.self]]
                ELSE IF "_out_crs" \notin VyperCoreAttributes
                THEN [raised |-> "AttributeError", self |-> [stored EXCEPT !.in_crs = ins.self]]
                ELSE Bind(update_regions(stored.out_crs, new_regions), LAMBDA outs :
                        [raised |-> outs.raised,
                         self |-> [stored EXCEPT !.in_crs = ins.self, !.out_crs = outs.self]])))

\* VyperCore.set_output_datum: [raised, self]
set_output_datum(self, output_datum) ==
    Bind(set_crs(self.out_crs, output_datum, <<>>), LAMBDA outs :
        [raised |-> outs.raised, self |-> [self EXCEPT !.out_crs = outs.self]])

\* VyperCore.set_input_datum without extents: [raised, self]
set_input_datum(self, input_datum) ==
    Bind(set_crs(self.in_crs, input_datum, <<>>), LAMBDA ins :
        IF ins.raised # ""
        THEN [raised |-> ins.raised, self |-> [self EXCEPT !.in_crs = ins.self]]
        ELSE IF ins.self.hori.kind # "None" /\ self.out_crs.hori.kind = "None"
        THEN set_output_datum([self EXCEPT !.in_crs = ins.self], <<WktEntry(ins.self.hori)>>)
        ELSE [raised |-> "", self |-> [self EXCEPT !.in_crs = ins.self]])

\* flip * z and -1 * z on the z values
\* a product that leaves the sign of z as it is
TimesKeepSign(f, z) == z

Times(f, z) == IF z.k = "num" THEN Num(f * z.v) ELSE z

\* the arrays transform_dataset fills, the pipelines and regions it collects, and per
\* region of the loop the transformed z and the uncertainty it wrote from
NewAnswer(n, include_vdatum_uncertainty, include_region_index) ==
    [raised |-> "",
     ans_xy |-> [i \in 1..n |-> NaN],
     ans_z |-> [i \in 1..n |-> NaN],
     ans_unc |-> IF include_vdatum_uncertainty THEN [i \in 1..n |-> NaN] ELSE <<>>,
     ans_region |-> IF include_region_index THEN [i \in 1..n |-> -1] ELSE <<>>,
     pipelines |-> <<>>, valid_regions |-> <<>>, new_zs |-> <<>>, uncs |-> <<>>]

\* the frame the returned x, y of a region are in
OutputFrame(self, region) ==
    LET in_horiz_name == self.in_crs.hori.name
        out_horiz_name == self.out_crs.hori.name
        gframe == get_geoid_frame(region)
    IN  IF out_horiz_name = in_horiz_name THEN in_horiz_name
        ELSE IF out_horiz_name = gframe THEN gframe
        ELSE out_horiz_name

\* a pass that writes a point only while no earlier region has written it
RegionPassKeepFirst(self, pts, z, flip, cnt, acc) ==
    LET region == self.regions[cnt]
        skipped == [acc EXCEPT !.new_zs = Append(@, <<>>), !.uncs = Append(@, NaN)]
    IN  Bind(get_transformation_pipeline(self.in_crs, self.out_crs, region, get_geoid_name(region)),
             LAMBDA tp :
        IF tp.raised # "" THEN [acc EXCEPT !.raised = tp.raised]
        ELSE IF ~tp.valid_pipeline THEN skipped
        ELSE Bind(IF tp.pipeline.kind = "ok" THEN run_pipeline(pts, tp.pipeline.val, z) ELSE z,
                  LAMBDA new_z :
             Bind(IF Len(acc.ans_unc) > 0 THEN get_output_uncertainty(self, region)
                  ELSE [raised |-> "", val |-> 0],
                  LAMBDA unc :
                [acc EXCEPT
                   !.raised = unc.raised,
                   !.pipelines = IF tp.pipeline.kind = "ok" THEN Append(@, tp.pipeline.val) ELSE @,
                   !.valid_regions = IF tp.pipeline.kind = "ok" THEN Append(@, region) ELSE @,
                   !.ans_xy = [i \in 1..Len(z) |->
                                  IF new_z[i].k # "inf" /\ acc.ans_z[i] = NaN
                                  THEN [k |-> "xy", v |-> pts[i], frame |-> OutputFrame(self, region)]
                                  ELSE @[i]],
                   !.ans_z = [i \in 1..Len(z) |->
                                  IF new_z[i].k # "inf" /\ acc.ans_z[i] = NaN THEN Times(flip, new_z[i]) ELSE @[i]],
                   !.ans_unc = [i \in 1..Len(@) |->
                                  IF new_z[i].k # "inf" /\ acc.ans_z[i] = NaN THEN Num(unc.val) ELSE @[i]],
                   !.ans_region = [i \in 1..Len(@) |->
                                  IF new_z[i].k # "inf" /\ acc.ans_z[i] = NaN THEN cnt - 1 ELSE @[i]],
                   !.new_zs = Append(@, new_z),
                   !.uncs = Append(@, Num(unc.val))])))

\* one pass of the loop of transform_dataset over self._regions, cnt counted from 1.
\* The horizontal CRS of the input is 2D, so the change to the geoid frame leaves z as it is.
RegionPass(self, pts, z, flip, cnt, acc) ==
    LET region == self.regions[cnt]
        skipped == [acc EXCEPT !.new_zs = Append(@, <<>>), !.uncs = Append(@, NaN)]
    IN  Bind(get_transformation_pipeline(self.in_crs, self.out_crs, region, get_geoid_name(region)),
             LAMBDA tp :
        IF tp.raised # "" THEN [acc EXCEPT !.raised = tp.raised]
        ELSE IF ~tp.valid_pipeline THEN skipped
        ELSE Bind(IF tp.pipeline.kind = "ok" THEN run_pipeline(pts, tp.pipeline.val, z) ELSE z,
                  LAMBDA new_z :
             Bind(IF Len(acc.ans_unc) > 0 THEN get_output_uncertainty(self, region)
                  ELSE [raised |-> "", val |-> 0],
                  LAMBDA unc :
                [acc EXCEPT
                   !.raised = unc.raised,
                   !.pipelines = IF tp.pipeline.kind = "ok" THEN Append(@, tp.pipeline.val) ELSE @,
                   !.valid_regions = IF tp.pipeline.kind = "ok" THEN Append(@, region) ELSE @,
                   !.ans_xy = [i \in 1..Len(z) |->
                                  IF new_z[i].k # "inf"
                                  THEN [k |-> "xy", v |-> pts[i], frame |-> OutputFrame(self, region)]
                                  ELSE @[i]],
                   !.ans_z = [i \in 1..Len(z) |->
                                  IF new_z[i].k # "inf" THEN Times(flip, new_z[i]) ELSE @[i]],
                   !.ans_unc = [i \in 1..Len(@) |->
                                  IF new_z[i].k # "inf" THEN Num(unc.val) ELSE @[i]],
                   !.ans_region = [i \in 1..Len(@) |->
                                  IF new_z[i].k # "inf" THEN cnt - 1 ELSE @[i]],
                   !.new_zs = Append(@, new_z),
                   !.uncs = Append(@, Num(unc.val))])))

RECURSIVE RegionLoop(_, _, _, _, _, _)
RegionLoop(self, pts, z, flip, cnt, acc) ==
    IF cnt > Len(self.regions) \/ acc.raised # "" THEN acc
    ELSE Bind(RegionPass(self, pts, z, flip, cnt, acc), LAMBDA next :
            RegionLoop(self, pts, z, flip, cnt + 1, next))

\* what transform_dataset gives back: the exception or the arrays, the object after the
\* call, and what the loop saw
Outcome(raised, self, acc, regions, flip) ==
    [raised |-> raised, self |-> self,
     xy |-> IF raised = "" THEN acc.ans_xy ELSE <<>>,
     z |-> IF raised = "" THEN acc.ans_z ELSE <<>>,
     unc |-> IF raised = "" THEN acc.ans_unc ELSE <<>>,
     region |-> IF raised = "" THEN acc.ans_region ELSE <<>>,
     regions |-> regions, new_zs |-> acc.new_zs, uncs |-> acc.uncs, flip |-> flip]

\* transform_dataset from `if len(self._regions) > 0` on
transform_with_regions(self, pts, z0, include_vdatum_uncertainty, include_region_index) ==
    LET empty == NewAnswer(Len(z0), include_vdatum_uncertainty, include_region_index)
        z == IF self.in_crs.is_height # "True" THEN [i \in 1..Len(z0) |-> Times(-1, z0[i])] ELSE z0
        flip == IF self.out_crs.is_height = "True" THEN 1 ELSE -1
    IN  IF Len(self.regions) = 0 THEN Outcome("ValueError", self, empty, <<>>, 0)
        ELSE IF ~self.in_crs.is_valid \/ ~self.out_crs.is_valid
        THEN Outcome("ValueError", self, empty, self.regions, 0)
        ELSE Bind(RegionLoop(self, pts, z, flip, 1, empty), LAMBDA acc :
             Bind([self EXCEPT !.pipelines = acc.pipelines], LAMBDA looped :
                IF acc.raised # "" THEN Outcome(acc.raised, looped, acc, self.regions, flip)
                ELSE IF Len(acc.valid_regions) = 0
                THEN Outcome("ValueError", looped, acc, self.regions, flip)
                ELSE Bind(set_region_by_bounds(looped, acc.valid_regions), LAMBDA narrowed :
                        Outcome(narrowed.raised, narrowed.self, acc, self.regions, flip))))

\* VyperCore._set_extents: min_x is stored before the horizontal CRS is read; the
\* geographic extents are kept as the regions they meet, `found`
set_extents(self, found) ==
    IF self.in_crs.hori.kind = "None"
    THEN [raised |-> "AttributeError", self |-> [self EXCEPT !.min_x = TRUE]]
    ELSE [raised |-> "",
          self |-> [self EXCEPT !.min_x = TRUE, !.geographic_min_x = TRUE,
                                !.geographic_extents = found]]

\* VyperCore.transform_dataset with z given; `found` are the regions the extents of
\* the batch meet
transform_dataset(self, found, pts, z, include_vdatum_uncertainty, include_region_index) ==
    LET empty == NewAnswer(Len(z), include_vdatum_uncertainty, include_region_index)
        measured == IF ~self.min_x THEN set_extents(self, found) ELSE [raised |-> "", self |-> self]
    IN  IF measured.raised # "" THEN Outcome(measured.raised, measured.self, empty, <<>>, 0)
        ELSE IF Len(self.regions) = 0 /\ ~measured.self.geographic_min_x
        THEN Outcome("TypeError", measured.self, empty, <<>>, 0)
        ELSE IF Len(self.regions) = 0
        THEN Bind(set_region_by_bounds(measured.self, measured.self.geographic_extents),
                  LAMBDA located :
                IF located.raised # ""
                THEN Outcome(located.raised, located.self, empty, <<>>, 0)
                ELSE transform_with_regions(located.self, pts, z, include_vdatum_uncertainty,
                                            include_region_index))
        ELSE transform_with_regions(measured.self, pts, z,
                                    include_vdatum_uncertainty, include_region_index)

-----------------------------------------------------------------------------
(* core.py: DatumData, the regions of the vdatum directory and of the      *)
(* external region directories.  A dict is a function on its keys; _config *)
(* keeps its insertion order, so it is a sequence of key/value records.    *)

\* dict[key] = value
Put(dict, key, value) == (key :> value) @@ dict

\* the directories on disk: the vdatum directory and the external ones
VdatumDirectory == "vdatum"
ExternalDirectories == {"survey_a", "survey_b", "unmounted"}

\* os.path.exists of a directory
PathExists(path) == path # "unmounted"

\* the folders of a directory that hold a grid, in the order get_grid_list gives them
get_grid_list(path) ==
    CASE path = "vdatum" -> << <<"NCcoast11_8301">>, <<"NCinner11_8301">>, <<"MDVAchb12_8301">> >>
      [] path = "survey_a" -> << <<"NCcoast11_8301">>, <<"TXshelf01">> >>
      [] path = "survey_b" -> << <<"TXshelf01">>, <<"AKdraft02">> >>
      [] OTHER -> <<>>

\* os.path.join(path, region, region + extension)
PolygonFile(path, region, extension) == <<path, "\\">> \o region \o <<"\\">> \o region \o <<extension>>

\* get_region_polygons: the kml file of every folder of the directory
get_region_polygons(path) ==
    LET found == get_grid_list(path)
    IN  [region \in {found[k] : k \in 1..Len(found)} |-> PolygonFile(path, region, ".kml")]

\* every region folder of the external directories holds a .gpkg file
GpkgExists(path, region) == \E k \in 1..Len(get_grid_list(path)) : get_grid_list(path)[k] = region

\* read_regional_config: the key/value pairs of the region's .config file
read_regional_config(path, region) ==
    CASE path = "survey_a" /\ region = <<"NCcoast11_8301">> ->
            [key \in {"reference_frame", "reference_geoid"} |->
                IF key = "reference_frame" THEN "NAD83(2011)" ELSE "xgeoid18b"]
      [] path = "survey_a" ->
            [key \in {"reference_frame", "reference_geoid", "uncertainty_tss"} |->
                IF key = "reference_frame" THEN "NAD83(2011)"
                ELSE IF key = "reference_geoid" THEN "geoid12b" ELSE "7"]
      [] path = "survey_b" /\ region = <<"TXshelf01">> ->
            [key \in {"reference_frame", "reference_geoid"} |->
                IF key = "reference_frame" THEN "ITRF2014" ELSE "xgeoid18b"]
      [] OTHER -> [key \in {"reference_frame"} |-> "ITRF2014"]

\* region in self.regions
InList(list, region) == \E k \in 1..Len(list) : list[k] = region

\* DatumData.set_config: the key keeps its place when it is already there
dd_set_config(self, ky, value) ==
    IF \E k \in 1..Len(self.config) : self.config[k].key = ky
        THEN [self EXCEPT !.config = [k \in 1..Len(self.config) |->
                    IF self.config[k].key = ky THEN [key |-> ky, value |-> value]
                    ELSE self.config[k]]]
        ELSE [self EXCEPT !.config = Append(self.config, [key |-> ky, value |-> value])]

\* DatumData.set_vdatum_directory
set_vdatum_directory(self, vdatum_path) ==
    [dd_set_config(self, <<"vdatum", "_path">>, vdatum_path) EXCEPT
        !.regions = get_grid_list(vdatum_path),
        !.polygon_files = get_region_polygons(vdatum_path),
        !.vdatum_path = vdatum_path]

\* the body of the loop of set_other_paths over the regions of one directory
RECURSIVE RegisterRegions(_, _, _, _)
RegisterRegions(self, entry, new_path, k) ==
    LET other_regions == get_grid_list(new_path)
        region == other_regions[k]
        new_region_info == read_regional_config(new_path, region)
        valid_region == /\ GpkgExists(new_path, region)
                        /\ "reference_frame" \in DOMAIN new_region_info
                        /\ "reference_geoid" \in DOMAIN new_region_info
        added == [self EXCEPT
                    !.extended_region_lookup = Put(@, entry, Append(@[entry], region)),
                    !.regions = Append(IF InList(@, region) THEN ListRemove(@, region) ELSE @, region),
                    !.polygon_files = Put(@, region, PolygonFile(new_path, region, ".gpkg")),
                    !.extended_region = Put(@, region, new_region_info),
                    !.uncertainties = IF "uncertainty_tss" \in DOMAIN new_region_info
                                          THEN Put(@, region, new_region_info["uncertainty_tss"])
                                          ELSE @]
    IN  IF k > Len(other_regions) THEN self
        ELSE RegisterRegions(IF valid_region THEN added ELSE self, entry, new_path, k + 1)

\* DatumData.set_other_paths, config a sequence of key/value records
RECURSIVE OtherPathsFrom(_, _, _)
OtherPathsFrom(self, config, k) ==
    LET entry == config[k].key
        new_path == config[k].value
        listed == [self EXCEPT !.extended_region_lookup = Put(@, entry, <<>>)]
    IN  IF k > Len(config) THEN self
        ELSE IF entry[Len(entry)] = "_path" /\ entry # <<"vdatum", "_path">> /\ PathExists(new_path)
            THEN OtherPathsFrom(RegisterRegions(listed, entry, new_path, 1), config, k + 1)
            ELSE OtherPathsFrom(self, config, k + 1)

set_other_paths(self, config) ==
    OtherPathsFrom([self EXCEPT !.extended_region = <<>>], config, 1)

\* DatumData.__init__ of the DatumData a VyperCore owns, no external path stored in the ini file
NewDatumData ==
    LET blank == [regions |-> <<>>, polygon_files |-> <<>>, uncertainties |-> <<>>,
                  vdatum_path |-> "", extended_region |-> <<>>,
                  extended_region_lookup |-> <<>>, config |-> <<>>]
        found == set_vdatum_directory(blank, VdatumDirectory)
    IN  set_other_paths(found, found.config)

\* DatumData.set_external_region_directory
set_external_region_directory(self, external_path, external_key) ==
    IF external_key[Len(external_key)] # "_path"
        THEN [self |-> self, raised |-> "AssertionError"]
        ELSE LET kept == dd_set_config(self, external_key, external_path)
                 read == set_other_paths(kept, <<[key |-> external_key, value |-> external_path]>>)
             IN  [self |-> read,
                  raised |-> IF external_key \in DOMAIN read.extended_region_lookup
                                 THEN "" ELSE "KeyError"]

\* dict.pop(key)
Drop(dict, key) == [k \in DOMAIN dict \ {key} |-> dict[k]]

\* DatumData.remove_from_config
remove_from_config(self, ky) ==
    [self EXCEPT !.config = SelectSeq(@, LAMBDA item : item.key # ky)]

\* the loop of remove_external_region_directory over the regions of a key: [self, raised]
RECURSIVE RemoveRegions(_, _, _)
RemoveRegions(self, regions, k) ==
    IF k > Len(regions) THEN [self |-> self, raised |-> ""]
    ELSE IF ~InList(self.regions, regions[k]) THEN [self |-> self, raised |-> "ValueError"]
    ELSE Bind([self EXCEPT !.regions = ListRemove(@, regions[k])], LAMBDA unlisted :
        IF regions[k] \notin DOMAIN unlisted.polygon_files
            THEN [self |-> unlisted, raised |-> "KeyError"]
        ELSE Bind([unlisted EXCEPT !.polygon_files = Drop(@, regions[k])], LAMBDA unfiled :
            IF regions[k] \notin DOMAIN unfiled.extended_region
                THEN [self |-> unfiled, raised |-> "KeyError"]
            ELSE RemoveRegions([unfiled EXCEPT
                                   !.extended_region = Drop(@, regions[k]),
                                   !.uncertainties = Drop(@, regions[k])],
                               regions, k + 1)))

\* DatumData.remove_external_region_directory: [self, raised]
remove_external_region_directory(self, external_key) ==
    Bind(IF \E k \in 1..Len(self.config) : self.config[k].key = external_key
             THEN remove_from_config(self, external_key) ELSE self,
         LAMBDA forgotten :
            IF external_key \in DOMAIN forgotten.extended_region_lookup
                THEN RemoveRegions([forgotten EXCEPT !.extended_region_lookup = Drop(@, external_key)],
                                   forgotten.extended_region_lookup[external_key], 1)
                ELSE [self |-> forgotten, raised |-> ""])

\* the regions of vdatum_geoidlookup for the vdatum version in use
LookupRegions == {get_grid_list(VdatumDirectory)[k] : k \in 1..Len(get_grid_list(VdatumDirectory))}

\* DatumData.get_geoid_name on the object: the grid, or the KeyError of the second lookup
dd_get_geoid_name(self, region_name) ==
    IF region_name \in LookupRegions THEN Ok(get_geoid_name(region_name))
    ELSE IF region_name \in DOMAIN self.extended_region
        THEN Ok(<<self.extended_region[region_name]["reference_geoid"]>>)
        ELSE Raise("KeyError")

\* DatumData.get_geoid_frame on the object
dd_get_geoid_frame(self, region_name) ==
    IF region_name \in LookupRegions THEN Ok(get_geoid_frame(region_name))
    ELSE IF region_name \in DOMAIN self.extended_region
        THEN Ok(<<self.extended_region[region_name]["reference_frame"]>>)
        ELSE Raise("KeyError")

\* a region's polygon file and metadata, the metadata empty for a region of the vdatum directory
Registration(self, region) ==
    [polygon_file |-> self.polygon_files[region],
     info |-> IF region \in DOMAIN self.extended_region
                  THEN self.extended_region[region] ELSE <<>>]

\* no call yet; first holds what each region was registered with the first time
NoDatumDataCall ==
    [op |-> "__init__", raised |-> "", n |-> 0,
     first |-> [region \in DOMAIN NewDatumData.polygon_files |-> Registration(NewDatumData, region)]]

-----------------------------------------------------------------------------
(* raster.py: VyperRaster, the layers of a raster and apply_sep.  A layer   *)
(* is the sequence of its cells; uncertainties are in hundredths of a metre *)

\* the cells of a raster
NumCells == 2

\* the band descriptions a raster file may carry
LayerNames == {"Elevation", "Depth", "Uncertainty", "Vertical Uncertainty", "Contributor"}

\* lname.lower()
LayerLower(lname) ==
    CASE lname = "Elevation" -> "elevation"
      [] lname = "Depth" -> "depth"
      [] lname = "Uncertainty" -> "uncertainty"
      [] lname = "Vertical Uncertainty" -> "vertical uncertainty"
      [] lname = "Contributor" -> "contributor"
      [] OTHER -> lname

\* list.index(x), counted from 0
ListIndex(l, x) == (CHOOSE i \in 1..Len(l) : l[i] = x /\ \A j \in 1..(i - 1) : l[j] # x) - 1

\* l[idx] for a Python index, a negative one counted from the end
PyItem(l, idx) == IF idx < 0 THEN l[Len(l) + 1 + idx] ELSE l[idx + 1]

\* a + b and -a on float cells
CellAdd(a, b) == IF a.k = "num" /\ b.k = "num" THEN Num(a.v + b.v) ELSE NaN
CellNeg(a) == IF a.k = "num" THEN Num(0 - a.v) ELSE a

\* GetNoDataValue of band i, i counted from 0
BandNoData(i) == Num(-9990 - i)

\* ReadAsArray of band i: the last cell of the first band is nodata, the second band
\* lies below zero
BandCells(i) ==
    [j \in 1..NumCells |->
        IF i = 0 /\ j = NumCells THEN BandNoData(i)
        ELSE IF i = 1 THEN Num(0 - (200 + j))
        ELSE Num(100 * (i + 1) + j)]

\* VyperRaster.__init__ without an input file
NewVyperRaster ==
    [is_height |-> TRUE, layers |-> <<>>, layernames |-> <<>>, nodatavalue |-> <<>>,
     raster_vdatum_sep |-> None, raster_vdatum_uncertainty |-> None]

\* VyperRaster.initialize on a file with the given band descriptions
initialize(self, names) ==
    [self EXCEPT
        !.layers = [i \in 1..Len(names) |->
                       [j \in 1..NumCells |->
                           IF BandCells(i - 1)[j] = BandNoData(i - 1) THEN NaN
                           ELSE BandCells(i - 1)[j]]],
        !.nodatavalue = [i \in 1..Len(names) |-> BandNoData(i - 1)],
        !.layernames = names]

\* the lowered layer names
check_layer_names(self) == [i \in 1..Len(self.layernames) |-> LayerLower(self.layernames[i])]

\* VyperRaster._get_elevation_layer_index
get_elevation_layer_index(self) ==
    IF ListHas(check_layer_names(self), "depth") THEN ListIndex(check_layer_names(self), "depth")
    ELSE IF ListHas(check_layer_names(self), "elevation")
        THEN ListIndex(check_layer_names(self), "elevation")
        ELSE -1

\* VyperRaster._get_uncertainty_layer_index
get_uncertainty_layer_index(self) ==
    IF ListHas(check_layer_names(self), "uncertainty")
        THEN ListIndex(check_layer_names(self), "uncertainty")
    ELSE IF ListHas(check_layer_names(self), "vertical uncertainty")
        THEN ListIndex(check_layer_names(self), "vertical uncertainty")
        ELSE -1

\* VyperRaster._get_contributor_layer_index
get_contributor_layer_index(self) ==
    IF ListHas(check_layer_names(self), "contributor")
        THEN ListIndex(check_layer_names(self), "contributor")
        ELSE -1

\* `if idx:` on an integer
Truthy(idx) == idx # 0

\* 3 - 0.06 * z, and 3.0 where z > 0, in hundredths
Catzoc(z) == IF z.k # "num" THEN NaN ELSE IF z.v > 0 THEN Num(300) ELSE Num(300 - 6 * z.v)

\* nothing came back yet
NoApplySep ==
    [op |-> "__init__", raised |-> "", layers |-> <<>>, layernames |-> <<>>,
     layernodata |-> <<>>, n |-> 0]

\* VyperRaster.apply_sep: [self, raised, layers, layernames, layernodata]
apply_sep(self, allow_points_outside_coverage) ==
    LET failed(e) == [self |-> self, raised |-> e, layers |-> <<>>, layernames |-> <<>>,
                      layernodata |-> <<>>]
        elevation_layer_idx == get_elevation_layer_index(self)
        uncertainty_layer_idx == get_uncertainty_layer_index(self)
        contributor_layer_idx == get_contributor_layer_index(self)
        missing(j) == self.raster_vdatum_sep.val[j].k = "nan"
        elevation_layer == PyItem(self.layers, elevation_layer_idx)
        uncertainty_layer == PyItem(self.layers, uncertainty_layer_idx)
        sep_unc == self.raster_vdatum_uncertainty.val
        layernames ==
            <<PyItem(self.layernames, elevation_layer_idx)>>
            \o (IF Truthy(uncertainty_layer_idx)
                    THEN <<PyItem(self.layernames, uncertainty_layer_idx)>>
                    ELSE <<"Uncertainty">>)
            \o (IF Truthy(contributor_layer_idx)
                    THEN <<PyItem(self.layernames, contributor_layer_idx)>> ELSE <<>>)
        layernodata ==
            <<PyItem(self.nodatavalue, elevation_layer_idx)>>
            \o (IF Truthy(uncertainty_layer_idx)
                    THEN <<PyItem(self.nodatavalue, uncertainty_layer_idx)>> ELSE <<NaN>>)
            \o (IF Truthy(contributor_layer_idx)
                    THEN <<PyItem(self.nodatavalue, contributor_layer_idx)>> ELSE <<>>)
        final_elevation_layer ==
            [j \in 1..NumCells |->
                IF missing(j)
                THEN (IF allow_points_outside_coverage THEN elevation_layer[j]
                      ELSE PyItem(self.nodatavalue, elevation_layer_idx))
                ELSE IF self.is_height
                    THEN CellAdd(CellNeg(elevation_layer[j]), CellNeg(self.raster_vdatum_sep.val[j]))
                    ELSE CellAdd(elevation_layer[j], CellNeg(self.raster_vdatum_sep.val[j]))]
        final_uncertainty_layer ==
            [j \in 1..NumCells |->
                IF missing(j)
                THEN (IF allow_points_outside_coverage THEN Catzoc(elevation_layer[j])
                      ELSE PyItem(self.nodatavalue, uncertainty_layer_idx))
                ELSE IF Truthy(uncertainty_layer_idx)
                    THEN CellAdd(uncertainty_layer[j], sep_unc[j])
                    ELSE sep_unc[j]]
        contributor_layer ==
            IF ~Truthy(contributor_layer_idx) THEN None
            ELSE Ok([j \in 1..NumCells |->
                        IF missing(j) /\ ~allow_points_outside_coverage
                        THEN PyItem(self.nodatavalue, contributor_layer_idx)
                        ELSE PyItem(self.layers, contributor_layer_idx)[j]])
        written ==
            IF contributor_layer.kind = "ok"
            THEN [self EXCEPT !.layers =
                    [i \in 1..Len(self.layers) |->
                        IF i = (IF contributor_layer_idx < 0
                                    THEN Len(self.layers) + 1 + contributor_layer_idx
                                    ELSE contributor_layer_idx + 1)
                        THEN contributor_layer.val ELSE self.layers[i]]]
            ELSE self
        \* without an uncertainty layer the returned array is raster_vdatum_uncertainty itself
        aliased ==
            IF Truthy(uncertainty_layer_idx) THEN written
            ELSE [written EXCEPT !.raster_vdatum_uncertainty = Ok(final_uncertainty_layer)]
    IN  IF self.raster_vdatum_sep.kind = "None" THEN failed("ValueError")
        ELSE IF elevation_layer_idx = -1 THEN failed("ValueError")
        ELSE [self |-> aliased, raised |-> "",
              layers |-> <<Ok(final_elevation_layer), Ok(final_uncertainty_layer), contributor_layer>>,
              layernames |-> layernames, layernodata |-> layernodata]

-----------------------------------------------------------------------------
(* Calls of the pipeline.py functions *)

NoCrsCall == [op |-> "__init__", raised |-> "", n |-> 0, new_crs |-> <<>>]

\* no calls planned on vcore
NoPlan == [name |-> "none", script |-> <<>>]

\* a call that has not returned yet
Pending == [kind |-> "pending", val |-> <<>>]

PipelineCalls ==
    [fn : {"get_regional_pipeline"}, from_datum : DatumNames, to_datum : DatumNames,
     region_name : RegionNames, geoid_name : GeoidNames, result : {Pending}]
    \cup [fn : {"compare_datums"}, in_datum_def : StepLists, out_datum_def : StepLists,
          result : {Pending}]
    \cup [fn : {"inverse_datum_def"}, datum_def : StepLists, result : {Pending}]

InitPipeline ==
    /\ datum_definition = DatumDefinitionTable
    /\ pcall \in PipelineCalls
    /\ vcrs = NewVyperPipelineCRS
    /\ crs_call = NoCrsCall
    /\ vcore = NewVyperCore
    /\ plan = NoPlan
    /\ touts = <<>>
    /\ datum_data = NewDatumData
    /\ dd_call = NoDatumDataCall
    /\ vraster = NewVyperRaster
    /\ applied = NoApplySep

CallGetRegionalPipeline ==
    /\ pcall.fn = "get_regional_pipeline"
    /\ pcall.result = Pending
    /\ pcall' = [pcall EXCEPT !.result =
                    get_regional_pipeline(pcall.from_datum, pcall.to_datum,
                                          pcall.region_name, pcall.geoid_name)]
    /\ datum_definition' = definitions_after(pcall.from_datum, pcall.to_datum)
    /\ UNCHANGED <<crs_vars, core_vars, dd_vars, raster_vars>>

CallCompareDatums ==
    /\ pcall.fn = "compare_datums"
    /\ pcall.result = Pending
    /\ pcall' = [pcall EXCEPT !.result =
                    Ok(compare_datums(pcall.in_datum_def, pcall.out_datum_def))]
    /\ UNCHANGED <<datum_definition, crs_vars, core_vars, dd_vars, raster_vars>>

CallInverseDatumDef ==
    /\ pcall.fn = "inverse_datum_def"
    /\ pcall.result = Pending
    /\ pcall' = [pcall EXCEPT !.result = Ok(inverse_datum_def(pcall.datum_def))]
    /\ UNCHANGED <<datum_definition, crs_vars, core_vars, dd_vars, raster_vars>>

NextPipeline ==
    \/ CallGetRegionalPipeline
    \/ CallCompareDatums
    \/ CallInverseDatumDef

SpecPipeline == InitPipeline /\ [][NextPipeline]_vars

-----------------------------------------------------------------------------
(* A VyperPipelineCRS object under set_crs and update_regions *)

NoCall == [fn |-> "none", result |-> Pending]

\* the regions the object is used with
CrsRegionNames == {<<"NCcoast11_8301">>, <<"MDVAchb12_8301">>}

MaxRegions == 2

\* the number of calls made on one object
MaxCalls == 3

RegionLists == ListsUpTo(CrsRegionNames, MaxRegions)

\* a vertical WKT as vyperdatum writes it for mllw over one region
MllwWkt ==
    build_valid_vert_crs(VertCRS(<<"mllw">>, "up", <<>>), << <<"NCcoast11_8301">> >>).vert

\* a vertical WKT written by a vdatum version that had MDVAchb12_8301 on the geoid12b grid
StaleMllwWkt ==
    vp_to_wkt([NewVerticalPipelineCRS(<<"mllw">>) EXCEPT
                  !.regions = << <<"MDVAchb12_8301">> >>,
                  !.pipelines = << get_regional_pipeline(<<"ellipse">>, <<"mllw">>,
                                                         <<"MDVAchb12_8301">>, Geoid12b).val >>,
                  !.vdatum_version_string = <<"vdatum_4.2">>])

\* the values handed to set_crs as new_crs without a regions argument
CrsInputs ==
    { <<IntEntry(6318)>>, <<IntEntry(26914)>>, <<IntEntry(6319)>>, <<IntEntry(5866)>>,
      <<IntEntry(4978)>>,
      <<StrEntry(<<"mllw">>)>>, <<StrEntry(<<"ellipse">>)>>, <<StrEntry(<<"geoid">>)>>,
      <<StrEntry(<<"nad83">>)>>,
      <<WktEntry(VertCRS(<<"EGM2008", " ", "height">>, "up", <<>>))>>,
      <<WktEntry(VertCRS(<<"mllw">>, "up", <<"regions=", "[", "NCcoast11_8301", "]">>))>>,
      <<WktEntry(CompoundOf(from_epsg(26914), MllwWkt))>>,
      <<WktEntry(StaleMllwWkt)>>,
      <<[t |-> "float"]>>,
      <<StrEntry(<<"mhw">>), IntEntry(26914)>>,
      <<IntEntry(26914), [t |-> "float"]>>,
      <<IntEntry(6318), IntEntry(5866), IntEntry(26914)>> }

\* the values handed to set_crs as new_crs together with a regions argument
CrsInputsWithRegions ==
    { <<IntEntry(6318), StrEntry(<<"mllw">>)>>,
      <<StrEntry(<<"NOAA", " ", "Chart", " ", "Datum">>)>>,
      <<WktEntry(MllwWkt)>> }

InitCRS ==
    /\ datum_definition = DatumDefinitionTable
    /\ pcall = NoCall
    /\ vcrs = NewVyperPipelineCRS
    /\ crs_call = NoCrsCall
    /\ vcore = NewVyperCore
    /\ plan = NoPlan
    /\ touts = <<>>
    /\ datum_data = NewDatumData
    /\ dd_call = NoDatumDataCall
    /\ vraster = NewVyperRaster
    /\ applied = NoApplySep

SetCrs ==
    \E new_crs \in CrsInputs : \E done \in {set_crs(vcrs, new_crs, <<>>)} :
            /\ crs_call.n < MaxCalls
            /\ vcrs' = done.self
            /\ crs_call' = [op |-> "set_crs", raised |-> done.raised, n |-> crs_call.n + 1,
                             new_crs |-> new_crs]
            /\ UNCHANGED <<datum_definition, pcall, core_vars, dd_vars, raster_vars>>

SetCrsWithRegions ==
    \E new_crs \in CrsInputsWithRegions, regions \in RegionLists :
        \E done \in {set_crs(vcrs, new_crs, regions)} :
            /\ crs_call.n < MaxCalls
            /\ vcrs' = done.self
            /\ crs_call' = [op |-> "set_crs", raised |-> done.raised, n |-> crs_call.n + 1,
                             new_crs |-> new_crs]
            /\ UNCHANGED <<datum_definition, pcall, core_vars, dd_vars, raster_vars>>

UpdateRegions ==
    \E regions \in RegionLists : \E done \in {update_regions(vcrs, regions)} :
            /\ crs_call.n < MaxCalls
            /\ vcrs' = done.self
            /\ crs_call' = [op |-> "update_regions", raised |-> done.raised,
                             n |-> crs_call.n + 1, new_crs |-> <<>>]
            /\ UNCHANGED <<datum_definition, pcall, core_vars, dd_vars, raster_vars>>

NextCRS ==
    \/ SetCrs
    \/ SetCrsWithRegions
    \/ UpdateRegions

SpecCRS == InitCRS /\ [][NextCRS]_vars

-----------------------------------------------------------------------------
(* A VyperCore object set up and used to transform a batch of points *)

\* a horizontal EPSG code with a vertical datum name, as the tests set datums
Setup(name) == <<IntEntry(6318), StrEntry(name)>>

\* EPSG 6318 with EPSG 5866, MLLW depth: z positive down
DepthSetup == <<IntEntry(6318), IntEntry(5866)>>

AllSetups == {Setup(name) : name \in DatumKeySet} \cup {DepthSetup}

FewSetups == {Setup(<<"ellipse">>), Setup(<<"mllw">>), Setup(<<"mhw">>), DepthSetup}

\* EPSG 6318 with the vertical WKT another object wrote for mllw over NCcoast11_8301
WktSetup == <<IntEntry(6318), WktEntry(MllwWkt)>>

\* the regions a call of set_region_by_bounds finds
MaxFound == 2

FoundLists ==
    {l \in ListsUpTo(RegionNames, MaxFound) : NoRepeats(l)}

\* the points of a batch and their z
NumPoints == 2

PointLists == {l \in [1..NumPoints -> 1..3] : NoRepeats(l)}

ZValues == {-5, 12}

ZLists == {[i \in 1..NumPoints |-> Num(IF i = 1 THEN a ELSE b)] : a \in {-5}, b \in ZValues}

\* a batch whose second point has no z: NaN, the nodata value of a float array
NoDataZ == <<Num(-5), NaN>>

\* a to b and back on a new object, as test_core._transform_dataset_inv goes one way
RoundTripScript ==
    <<"in_a", "out_b", "bounds", "transform", "new", "in_b", "out_a", "bounds", "transform_back">>

\* regions found from the extents of the data, then a second batch
AutoScript == <<"in_a", "out_b", "transform", "transform">>

OutFirstScript == <<"out_b", "in_a", "bounds", "transform">>

BareScript == <<"bounds", "in_a", "transform">>

\* the output datum set after the regions were found
BoundsFirstScript == <<"in_a", "bounds", "out_b", "transform">>

\* set_region_by_bounds on bounds that meet no region, then a batch
NoRegionScript == <<"in_a", "out_b", "bounds_none", "transform_after_none">>

\* the same, the batch lying outside every region as well
OutsideScript == <<"in_a", "out_b", "bounds_none", "transform_outside">>

\* the same after a first batch inside the regions
SecondOutsideScript == <<"in_a", "out_b", "transform", "bounds_none", "transform_outside">>

\* the caller assigns the region list itself
AssignScript == <<"in_a", "out_b", "assign", "transform">>

\* a batch of one point outside every region: its extents meet no region
OutsideBatch == [found |-> <<>>, pts |-> <<3>>, z |-> <<Num(-5)>>]

Plans ==
    [a : AllSetups, b : AllSetups,
     found : { << <<"NCcoast11_8301">> >>, << <<"NCcoast11_8301">>, <<"NCinner11_8301">> >> },
     pts : {<<1, 2>>}, z : {<<Num(-5), Num(12)>>}, unc : {FALSE}, idx : {FALSE},
     name : {"round trip"}, script : {RoundTripScript}]
    \cup
    [a : FewSetups, b : FewSetups \cup {<<StrEntry(<<"mllw">>)>>},
     found : FoundLists, pts : PointLists, z : ZLists, unc : {TRUE}, idx : {TRUE},
     name : {"one way"}, script : {AutoScript, OutFirstScript, BareScript}]
    \cup
    [a : {Setup(<<"ellipse">>), Setup(<<"mhw">>)}, b : {WktSetup},
     found : FoundLists, pts : PointLists, z : ZLists, unc : {TRUE}, idx : {TRUE},
     name : {"one way"}, script : {BoundsFirstScript}]
    \cup
    [a : {Setup(<<"ellipse">>), Setup(<<"mhw">>)}, b : {Setup(<<"mllw">>)},
     found : FoundLists, pts : PointLists, z : ZLists, unc : {TRUE}, idx : {TRUE},
     name : {"one way"}, script : {NoRegionScript, OutsideScript, SecondOutsideScript}]
    \cup
    [a : {Setup(<<"ellipse">>), Setup(<<"mhw">>)}, b : {Setup(<<"mllw">>)},
     found : FoundLists, pts : PointLists, z : {NoDataZ}, unc : {TRUE}, idx : {TRUE},
     name : {"one way"}, script : {AutoScript, OutFirstScript}]
    \cup
    [a : {Setup(<<"ellipse">>)}, b : {Setup(<<"mllw">>)},
     found : FoundLists, pts : {<<1, 2>>}, z : {<<Num(-5), Num(12)>>}, unc : {TRUE},
     idx : {TRUE}, name : {"one way"}, script : {AssignScript}]

InitCore ==
    /\ datum_definition = DatumDefinitionTable
    /\ pcall = NoCall
    /\ vcrs = NewVyperPipelineCRS
    /\ crs_call = NoCrsCall
    /\ vcore = NewVyperCore
    /\ plan \in Plans
    /\ touts = <<>>
    /\ datum_data = NewDatumData
    /\ dd_call = NoDatumDataCall
    /\ vraster = NewVyperRaster
    /\ applied = NoApplySep

NextIs(ops) == Len(plan.script) > 0 /\ Head(plan.script) \in ops

Advance == plan' = [plan EXCEPT !.script = Tail(@)]

CoreNew ==
    /\ NextIs({"new"})
    /\ vcore' = NewVyperCore
    /\ Advance
    /\ UNCHANGED <<datum_definition, pcall, crs_vars, touts, dd_vars, raster_vars>>

CoreSetInputDatum ==
    /\ NextIs({"in_a", "in_b"})
    /\ vcore' = set_input_datum(vcore, IF Head(plan.script) = "in_a" THEN plan.a ELSE plan.b).self
    /\ Advance
    /\ UNCHANGED <<datum_definition, pcall, crs_vars, touts, dd_vars, raster_vars>>

CoreSetOutputDatum ==
    /\ NextIs({"out_a", "out_b"})
    /\ vcore' = set_output_datum(vcore, IF Head(plan.script) = "out_a" THEN plan.a ELSE plan.b).self
    /\ Advance
    /\ UNCHANGED <<datum_definition, pcall, crs_vars, touts, dd_vars, raster_vars>>

CoreSetRegionByBounds ==
    /\ NextIs({"bounds", "bounds_none"})
    /\ vcore' = set_region_by_bounds(vcore, IF Head(plan.script) = "bounds" THEN plan.found
                                            ELSE <<>>).self
    /\ Advance
    /\ UNCHANGED <<datum_definition, pcall, crs_vars, touts, dd_vars, raster_vars>>

CoreAssignRegions ==
    /\ NextIs({"assign"})
    /\ vcore' = regions_setter(vcore, plan.found).self
    /\ Advance
    /\ UNCHANGED <<datum_definition, pcall, crs_vars, touts, dd_vars, raster_vars>>

\* the batch a transform of the script is called with
Batch ==
    CASE Head(plan.script) = "transform_back" ->
            [found |-> plan.found, pts |-> plan.pts, z |-> touts[Len(touts)].z]
      [] Head(plan.script) = "transform_outside" -> OutsideBatch
      [] OTHER -> [found |-> plan.found, pts |-> plan.pts, z |-> plan.z]

CoreTransformDataset ==
    /\ NextIs({"transform", "transform_back", "transform_after_none", "transform_outside"})
    /\ Head(plan.script) = "transform_back" => touts[Len(touts)].raised = ""
    /\ \E batch \in {Batch} :
       \E out \in {transform_dataset(vcore, batch.found, batch.pts, batch.z, plan.unc, plan.idx)} :
          /\ vcore' = out.self
          /\ touts' = Append(touts, [out EXCEPT !.self = vcore] @@
                                 [op |-> Head(plan.script), z_in |-> batch.z,
                                  pts |-> batch.pts, after |-> out.self])
    /\ Advance
    /\ UNCHANGED <<datum_definition, pcall, crs_vars, dd_vars, raster_vars>>

NextCore ==
    \/ CoreNew
    \/ CoreSetInputDatum
    \/ CoreSetOutputDatum
    \/ CoreSetRegionByBounds
    \/ CoreAssignRegions
    \/ CoreTransformDataset

SpecCore == InitCore /\ [][NextCore]_vars

-----------------------------------------------------------------------------
(* Calls of set_external_region_directory on a DatumData *)

\* the calls made on one DatumData
MaxDirectoryCalls == 3

\* the keys a caller names the directory with
ExternalKeys == { <<"external", "_path">>, <<"custom", "_path">>, <<"scratch">> }

InitDatumData ==
    /\ datum_definition = DatumDefinitionTable
    /\ pcall = NoCall
    /\ vcrs = NewVyperPipelineCRS
    /\ crs_call = NoCrsCall
    /\ vcore = NewVyperCore
    /\ plan = NoPlan
    /\ touts = <<>>
    /\ datum_data = NewDatumData
    /\ dd_call = NoDatumDataCall
    /\ vraster = NewVyperRaster
    /\ applied = NoApplySep

SetExternalRegionDirectory ==
    /\ dd_call.n < MaxDirectoryCalls
    /\ \E external_path \in ExternalDirectories : \E external_key \in ExternalKeys :
       \E done \in {set_external_region_directory(datum_data, external_path, external_key)} :
          /\ datum_data' = done.self
          /\ dd_call' = [op |-> "set_external_region_directory", raised |-> done.raised,
                         n |-> dd_call.n + 1,
                         first |-> [region \in DOMAIN done.self.polygon_files |->
                                       IF region \in DOMAIN dd_call.first
                                           THEN dd_call.first[region]
                                           ELSE Registration(done.self, region)]]
    /\ UNCHANGED <<datum_definition, pcall, crs_vars, core_vars, raster_vars>>

NextDatumData == SetExternalRegionDirectory

SpecDatumData == InitDatumData /\ [][NextDatumData]_vars

-----------------------------------------------------------------------------
(* Calls that add and remove external region directories on a DatumData *)

RemoveExternalRegionDirectory ==
    /\ dd_call.n < MaxDirectoryCalls
    /\ \E external_key \in ExternalKeys :
       \E done \in {remove_external_region_directory(datum_data, external_key)} :
          /\ datum_data' = done.self
          /\ dd_call' = [op |-> "remove_external_region_directory", raised |-> done.raised,
                         n |-> dd_call.n + 1,
                         first |-> [region \in DOMAIN dd_call.first \cap DOMAIN done.self.polygon_files |->
                                       dd_call.first[region]]]
    /\ UNCHANGED <<datum_definition, pcall, crs_vars, core_vars, raster_vars>>

NextRegionCatalog ==
    \/ SetExternalRegionDirectory
    \/ RemoveExternalRegionDirectory

SpecRegionCatalog == InitDatumData /\ [][NextRegionCatalog]_vars

-----------------------------------------------------------------------------
(* A VyperRaster under get_datum_sep and apply_sep *)

\* the bands of a raster file
MaxBands == 3

\* the apply_sep calls made on one raster
MaxApply == 2

\* the band descriptions of the files: no description twice
RasterFiles == {names \in ListsUpTo(LayerNames, MaxBands) : Len(names) > 0 /\ NoRepeats(names)}

\* what transform_dataset gives for the cells: the separation and its uncertainty, NaN
\* for a cell no region covers
SepResults ==
    { [sep |-> [j \in 1..NumCells |-> Num(4)], unc |-> [j \in 1..NumCells |-> Num(20)]],
      [sep |-> [j \in 1..NumCells |-> IF j = NumCells THEN NaN ELSE Num(4)],
       unc |-> [j \in 1..NumCells |-> IF j = NumCells THEN NaN ELSE Num(20)]] }

InitRaster ==
    /\ datum_definition = DatumDefinitionTable
    /\ pcall = NoCall
    /\ vcrs = NewVyperPipelineCRS
    /\ crs_call = NoCrsCall
    /\ vcore = NewVyperCore
    /\ plan = NoPlan
    /\ touts = <<>>
    /\ datum_data = NewDatumData
    /\ dd_call = NoDatumDataCall
    /\ \E names \in RasterFiles, is_height \in BOOLEAN :
          vraster = initialize([NewVyperRaster EXCEPT !.is_height = is_height], names)
    /\ applied = NoApplySep

\* get_datum_sep: the separation sampled over the cells of the raster
RasterGetDatumSep ==
    /\ vraster.raster_vdatum_sep = None
    /\ \E found \in SepResults :
          vraster' = [vraster EXCEPT !.raster_vdatum_sep = Ok(found.sep),
                                     !.raster_vdatum_uncertainty = Ok(found.unc)]
    /\ UNCHANGED <<datum_definition, pcall, crs_vars, core_vars, dd_vars, applied>>

RasterApplySep ==
    /\ applied.n < MaxApply
    /\ \E allow_points_outside_coverage \in BOOLEAN :
       \E done \in {apply_sep(vraster, allow_points_outside_coverage)} :
          /\ vraster' = done.self
          /\ applied' = [op |-> "apply_sep", raised |-> done.raised, layers |-> done.layers,
                         layernames |-> done.layernames, layernodata |-> done.layernodata,
                         n |-> applied.n + 1]
    /\ UNCHANGED <<datum_definition, pcall, crs_vars, core_vars, dd_vars>>

NextRaster ==
    \/ RasterGetDatumSep
    \/ RasterApplySep

SpecRaster == InitRaster /\ [][NextRaster]_vars

-----------------------------------------------------------------------------
(* What the claims about pipeline.py are stated with *)

\* the call in pcall has returned
Returned(fn) == pcall.fn = fn /\ pcall.result # Pending

\* length of the longest common prefix of two lists
RECURSIVE CommonPrefixLen(_, _)
CommonPrefixLen(a, b) ==
    IF Len(a) = 0 \/ Len(b) = 0 THEN 0
    ELSE IF Head(a) # Head(b) THEN 0
    ELSE 1 + CommonPrefixLen(Tail(a), Tail(b))

DropFirst(l, n) == SubSeq(l, n + 1, Len(l))

\* a step with its inverted flag toggled
ToggleInverted(step) ==
    IF Head(step) = "+inv" THEN DropFirst(step, 2) ELSE <<"+inv", " ">> \o step

\* a step with both placeholders filled in at once
RECURSIVE FillPlaceholders(_, _, _)
FillPlaceholders(step, region_name, geoid_name) ==
    IF Len(step) = 0 THEN <<>>
    ELSE (CASE Head(step) = "REGION" -> region_name
            [] Head(step) = "GEOID" -> geoid_name
            [] OTHER -> <<Head(step)>>)
         \o FillPlaceholders(Tail(step), region_name, geoid_name)

\* invert(from steps after the common prefix) ++ (to steps after the common prefix)
ExpectedSteps(from_steps, to_steps, region_name, geoid_name) ==
    LET n == CommonPrefixLen(from_steps, to_steps)
        rem_from == DropFirst(from_steps, n)
        rem_to == DropFirst(to_steps, n)
        steps == [i \in 1..Len(rem_from) |-> ToggleInverted(rem_from[Len(rem_from) + 1 - i])]
                 \o rem_to
    IN  [i \in 1..Len(steps) |-> FillPlaceholders(steps[i], region_name, geoid_name)]

\* the steps of a pipeline string, without the leading +proj=pipeline
PipelineSteps(pipeline) == Tail(StrSplit(pipeline, <<" ", "+step", " ">>))

-----------------------------------------------------------------------------
(* C3 *)

-----------------------------------------------------------------------------
(* C4 *)

-----------------------------------------------------------------------------
(* C5 *)

\* C5: compare_datums removes exactly the longest common prefix from both
\* lists, and the reduced lists never start with the same element.
C5_RemovesLongestCommonPrefix ==
    Returned("compare_datums")
    => LET n == CommonPrefixLen(pcall.in_datum_def, pcall.out_datum_def)
           reduced == pcall.result.val
       IN  /\ reduced[1] = DropFirst(pcall.in_datum_def, n)
           /\ reduced[2] = DropFirst(pcall.out_datum_def, n)
           /\ (Len(reduced[1]) > 0 /\ Len(reduced[2]) > 0 => Head(reduced[1]) # Head(reduced[2]))



-----------------------------------------------------------------------------
(* What the claims about VyperPipelineCRS are stated with *)

\* the region list and the pipelines written in the REMARK of the vertical CRS
EmbeddedRegions(self) == wkt_pipeline_remarks(self.vert.remarks).regions
EmbeddedPipelines(self) == wkt_pipeline_remarks(self.vert.remarks).pipelines

\* the pipeline written for a region, <<>> when the region is not written
PipelineOf(self, region) ==
    LET regions == EmbeddedRegions(self)
        at == {i \in 1..Len(regions) : regions[i] = region}
    IN  IF at = {} \/ Len(EmbeddedPipelines(self)) # Len(regions) THEN <<>>
        ELSE EmbeddedPipelines(self)[CHOOSE i \in at : \A j \in at : i <= j]

\* horizontal, vertical, regions and the provenance of the vertical are all there
AllFourPresent(self) ==
    /\ self.hori.kind # "None"
    /\ self.vert.kind = "vertical"
    /\ Len(self.regions) > 0
    /\ valid_vert(self)

\* C1: in every state reached by set_crs and update_regions calls, is_valid is
\* true if and only if a horizontal CRS is set, a vertical CRS is set, the region
\* list is non-empty and the vertical carries regions, pipelines, tool version
\* and base datum.
C1_IsValidIffAllFourPresent ==
    vcrs.is_valid <=> AllFourPresent(vcrs)

\* C2: after update_regions(R) returned on an object with a vertical datum, the
\* region list written in the vertical CRS is R itself, nothing left over from
\* earlier calls, with one pipeline per region of R.  Stated here for the lists R
\* that are non-empty and name no region twice.
C2_EmbeddedRegionsAreR ==
    (/\ crs_call.op = "update_regions"
     /\ crs_call.raised = ""
     /\ vcrs.vert.kind = "vertical"
     /\ Len(vcrs.regions) > 0
     /\ NoRepeats(vcrs.regions))
    => /\ EmbeddedRegions(vcrs) = vcrs.regions
       /\ Len(EmbeddedPipelines(vcrs)) = Len(vcrs.regions)

\* C7: for every valid VyperPipelineCRS, a new VyperPipelineCRS built from the
\* text of to_wkt() has the same vertical datum name, the region list of the
\* original, and the same pipeline for each region.  Stated here for the objects
\* that are valid with all four parts present and no region named twice.
C7_ToWktRoundTrip ==
    (vcrs.is_valid /\ AllFourPresent(vcrs) /\ NoRepeats(vcrs.regions))
    => LET rebuilt == set_crs(NewVyperPipelineCRS, <<crs_to_wkt(vcrs)>>, <<>>)
       IN  /\ rebuilt.raised = ""
           /\ rebuilt.self.is_valid
           /\ rebuilt.self.vert.name = vcrs.vert.name
           /\ rebuilt.self.regions = vcrs.regions
           /\ \A i \in 1..Len(vcrs.regions) :
                 PipelineOf(rebuilt.self, vcrs.regions[i]) = PipelineOf(vcrs, vcrs.regions[i])


-----------------------------------------------------------------------------
(* What the claims about transform_dataset are stated with *)

\* a z value that is a number: neither inf nor nan
Finite(z) == z.k = "num"

\* the passes of the loop of call t, counted from 1, that gave point i a finite z
PassesFinite(t, i) ==
    {k \in 1..Len(t.new_zs) : Len(t.new_zs[k]) > 0 /\ Finite(t.new_zs[k][i])}

Last(S) == CHOOSE k \in S : \A j \in S : j <= k

\* the loop of call t went over every region of a non-empty list
LoopCompleted(t) == Len(t.regions) > 0 /\ Len(t.new_zs) = Len(t.regions)

\* the call was made with both CRS valid and on the same vertical datum and convention
SameDatum(t) ==
    /\ t.self.in_crs.is_valid /\ t.self.out_crs.is_valid
    /\ t.self.in_crs.vyperdatum_str = t.self.out_crs.vyperdatum_str
    /\ t.self.in_crs.is_height = t.self.out_crs.is_height

\* C8: for every point whose transformed z is finite under more than one region, the
\* returned z, uncertainty and region index all come from the last such region in
\* the order of the region list.
C8_LastRegionWins ==
    \A n \in 1..Len(touts) : \A i \in 1..Len(touts[n].z) :
        LET t == touts[n]
            passes == PassesFinite(t, i)
        IN  Cardinality(passes) > 1 =>
                /\ t.z[i] = Times(t.flip, t.new_zs[Last(passes)][i])
                /\ Len(t.unc) > 0 => t.unc[i] = t.uncs[Last(passes)]
                /\ Len(t.region) > 0 => t.region[i] = Last(passes) - 1

\* C8 witness: a returned point that two regions transformed to different z with
\* different uncertainties, uncertainty and region index both asked for
C8_Witness ==
    \E n \in 1..Len(touts) : \E i \in 1..Len(touts[n].z) :
        LET t == touts[n]
            passes == PassesFinite(t, i)
        IN  /\ Cardinality(passes) > 1
            /\ Len(t.unc) > 0 /\ Len(t.region) > 0
            /\ \E j \in passes : /\ t.new_zs[j][i] # t.new_zs[Last(passes)][i]
                                 /\ t.uncs[j] # t.uncs[Last(passes)]

\* C9: transform_dataset raises when no region produces any finite point for the
\* batch, and returns the arrays, NaN at the points no region covers, whenever at
\* least one region produced a finite point.  Stated here for the calls whose loop
\* went over all regions between two different vertical datums.
C9_RaisesIffNoFinitePoint ==
    \A n \in 1..Len(touts) :
        LET t == touts[n]
            produced == \E i \in 1..Len(t.z_in) : PassesFinite(t, i) # {}
        IN  (/\ LoopCompleted(t)
             /\ t.self.in_crs.vyperdatum_str # t.self.out_crs.vyperdatum_str)
            => /\ produced => t.raised = ""
               /\ ~produced => t.raised # ""
               /\ t.raised = "" =>
                     \A i \in 1..Len(t.z) : (t.z[i] = NaN) <=> (PassesFinite(t, i) = {})

\* C10: with input and output CRS on the same vertical datum and the same
\* height/depth convention, for points inside a resolved region, transform_dataset
\* returns z equal to the input z and does not raise.
C10_SameDatumIsNoOp ==
    \A n \in 1..Len(touts) :
        LET t == touts[n]
        IN  (/\ SameDatum(t)
             /\ Len(t.regions) > 0
             /\ \A i \in 1..Len(t.pts) :
                   \E k \in 1..Len(t.regions) : t.pts[i] \in Coverage(t.regions[k]))
            => t.raised = "" /\ t.z = t.z_in

\* C6: for a fixed region list, z transformed from datum a to datum b and the
\* result transformed from b back to a is the original z, for every pair of
\* registered datums a and b.
C6_RoundTrip ==
    plan.name = "round trip" =>
        /\ Len(touts) >= 1 => touts[1].raised = ""
        /\ Len(touts) = 2 => touts[2].raised = "" /\ touts[2].z = plan.z


\* C11: after transform_dataset returns with region indices requested, every point
\* has index -1 or an index that is a 0-based position in the region list of the
\* object as it stands after the call, naming the region that produced the point's z.
C11_RegionIndexNamesRegion ==
    \A n \in 1..Len(touts) : \A i \in 1..Len(touts[n].region) :
        LET t == touts[n]
            passes == PassesFinite(t, i)
        IN  \/ t.region[i] = -1 /\ passes = {}
            \/ /\ passes # {}
               /\ t.region[i] + 1 \in 1..Len(t.after.regions)
               /\ t.after.regions[t.region[i] + 1] = t.regions[Last(passes)]


\* the regions of call t that wrote at least one finite point, in the order of the list
RECURSIVE RegionsThatWrote(_, _)
RegionsThatWrote(t, k) ==
    IF k > Len(t.new_zs) THEN <<>>
    ELSE (IF \E i \in 1..Len(t.z_in) : k \in PassesFinite(t, i) THEN <<t.regions[k]>> ELSE <<>>)
         \o RegionsThatWrote(t, k + 1)

\* C12: after transform_dataset returns, the region list of the object and of both
\* in_crs and out_crs holds exactly the regions that wrote at least one valid point
\* in that call; every region that contributed no valid point has been dropped.
C12_RegionsNarrowedToWriters ==
    \A n \in 1..Len(touts) :
        LET t == touts[n]
        IN  t.raised = "" =>
                /\ t.after.regions = RegionsThatWrote(t, 1)
                /\ t.after.in_crs.regions = RegionsThatWrote(t, 1)
                /\ t.after.out_crs.regions = RegionsThatWrote(t, 1)


\* the datums defined through the tss grid of the region, and the layer each names
TidalDatums ==
    { <<"tss">>, <<"mllw">>, <<"noaa", " ", "chart", " ", "datum">>, <<"mhw">>,
      <<"noaa", " ", "chart", " ", "height">>, <<"mtl">>, <<"dtl">> }

TidalLayer(datum) ==
    CASE datum = <<"noaa", " ", "chart", " ", "datum">> -> <<"mllw">>
      [] datum = <<"noaa", " ", "chart", " ", "height">> -> <<"mhw">>
      [] OTHER -> datum

\* the sum of sigmas the uncertainty of a region is made of
SigmaSum(indatum, outdatum, region) ==
    (IF indatum = <<"ellipse">> /\ outdatum # <<"ellipse">> THEN GeoidUncertainty ELSE 0)
    + (IF indatum \in TidalDatums \/ outdatum \in TidalDatums
       THEN Uncertainty(region, <<"tss">>) ELSE 0)
    + (IF outdatum \in TidalDatums \ {<<"tss">>}
       THEN Uncertainty(region, TidalLayer(outdatum)) ELSE 0)

\* C13: when uncertainty is requested, the value transform_dataset assigns for a
\* region is the ellipsoid-geoid sigma iff the input is the ellipsoid and the output
\* is not, plus the region's tss sigma iff either datum is tidal, plus the region's
\* sigma of the output layer when the output is a tidal layer.
C13_UncertaintyIsSumOfSigmas ==
    \A n \in 1..Len(touts) : \A k \in 1..Len(touts[n].new_zs) :
        LET t == touts[n]
        IN  (t.raised = "" /\ Len(t.unc) > 0 /\ Len(t.new_zs[k]) > 0) =>
                t.uncs[k] = Num(SigmaSum(t.self.in_crs.vyperdatum_str,
                                         t.self.out_crs.vyperdatum_str, t.regions[k]))


\* the call went into the loop over the regions, between two datums of different definitions
LoopEntered(t) ==
    /\ Len(t.regions) > 0 /\ t.flip # 0
    /\ datum_definition[t.after.in_crs.vyperdatum_str]
         # datum_definition[t.after.out_crs.vyperdatum_str]

\* the pipeline of region k of call t fails to compile: it raises or is infeasible
CompileFails(t, k) ==
    LET tp == get_transformation_pipeline(t.after.in_crs, t.after.out_crs, t.regions[k],
                                          get_geoid_name(t.regions[k]))
    IN  tp.raised # "" \/ ~tp.valid_pipeline

\* C14: in transform_dataset a failure to compile the pipeline of one region skips
\* only that region: the remaining regions are still processed, and the call fails
\* only if every region fails.
C14_CompileFailureSkipsRegion ==
    \A n \in 1..Len(touts) :
        LET t == touts[n]
        IN  LoopEntered(t) =>
                /\ \A k \in 1..Len(t.regions) :
                      ~CompileFails(t, k) => k <= Len(t.new_zs) /\ Len(t.new_zs[k]) > 0
                /\ t.raised # "" => \A k \in 1..Len(t.regions) : CompileFails(t, k)


\* C15: after set_region_by_bounds on bounds that intersect no region polygon the
\* region list is empty and the resolution raised nothing, and every later
\* transform_dataset call raises an error instead of returning output.
C15_NoRegionThenTransformRaises ==
    /\ NextIs({"bounds_none"}) =>
          LET resolved == set_region_by_bounds(vcore, <<>>)
          IN  resolved.raised = "" /\ resolved.self.regions = <<>>
    /\ \A n \in 1..Len(touts) :
          touts[n].op \in {"transform_after_none", "transform_outside"} => touts[n].raised # ""


-----------------------------------------------------------------------------
(* What the claims about the frame of set_crs are stated with *)

\* what one entry of new_crs is: "horizontal", "vertical", "compound", "3d", ...
EntryKind(entry) ==
    CASE entry.t = "int" -> from_epsg(entry.code).kind
      [] entry.t = "wkt" -> entry.crs.kind
      [] entry.t = "str" -> IF StrLower(entry.text) \in DatumKeySet THEN "vertical" ELSE "unknown"
      [] OTHER -> "unknown"

\* the call just made was set_crs with one value of the given kind, and it returned
SetCrsOnly(kind) ==
    /\ crs_call'.n = crs_call.n + 1
    /\ crs_call'.op = "set_crs" /\ crs_call'.raised = ""
    /\ Len(crs_call'.new_crs) = 1 /\ EntryKind(crs_call'.new_crs[1]) = kind

\* C16: set_crs with only a horizontal value replaces the horizontal component and
\* leaves the vertical datum, the region list and the per-region pipelines
\* unchanged; set_crs with only a vertical value replaces the vertical component
\* and leaves the horizontal component unchanged.
C16_SetCrsFrame ==
    [][ /\ SetCrsOnly("horizontal") =>
              /\ vcrs'.hori = entry_crs(vcrs, crs_call'.new_crs[1]).crs
              /\ vcrs'.vyperdatum_str = vcrs.vyperdatum_str
              /\ vcrs'.regions = vcrs.regions
              /\ vcrs'.pipeline_str = vcrs.pipeline_str
        /\ SetCrsOnly("vertical") =>
              /\ vcrs'.vert.kind = "vertical"
              /\ \/ vcrs'.vert.name = entry_crs(vcrs, crs_call'.new_crs[1]).crs.name
                 \/ vcrs'.vyperdatum_str = <<"geoid">>
              /\ vcrs'.hori = vcrs.hori ]_vars


-----------------------------------------------------------------------------
(* What the claim about the sign convention is stated with *)

\* +1 for a height CRS, -1 for a depth CRS
Sign(crs) == IF crs.is_height = "True" THEN 1 ELSE -1

\* the separation the pipeline of region k of call t adds at point i
Separation(t, k, i) ==
    LET tp == get_transformation_pipeline(t.after.in_crs, t.after.out_crs, t.regions[k],
                                          get_geoid_name(t.regions[k]))
    IN  IF tp.pipeline.kind = "ok"
        THEN run_pipeline(<<t.pts[i]>>, tp.pipeline.val, <<Num(0)>>)[1].v
        ELSE 0

-----------------------------------------------------------------------------
(* What the claims about DatumData are stated with *)

\* how many times the region stands in the region list
Occurrences(list, region) == Cardinality({k \in 1..Len(list) : list[k] = region})

\* C18: after any sequence of set_external_region_directory calls, every
\* registered region has the polygon file and the metadata of its first
\* registration (by the vdatum directory or by an external directory) and
\* stands exactly once in the region list
C18_FirstRegistrationWins ==
    \A region \in DOMAIN dd_call.first :
        /\ Registration(datum_data, region) = dd_call.first[region]
        /\ Occurrences(datum_data.regions, region) = 1

-----------------------------------------------------------------------------
(* What the claim about inverse_datum_def is stated with *)

\* the layer carries the inverted flag
Inverted(layer) == StrIn(<<"+inv">>, layer)

-----------------------------------------------------------------------------
(* What the claim about the stored pipelines is stated with *)

\* what build_valid_vert_crs derives for a region: get_regional_pipeline from
\* the ellipse to the datum over the region's geoid
DerivedPipeline(datum, region) ==
    get_regional_pipeline(<<"ellipse">>, datum, region, get_geoid_name(region))

\* C20: after every set_crs or update_regions call that returned and left a
\* vertical CRS of a registered datum other than the ellipse and a non-empty
\* region list, the pipeline written for every region of the list is the one
\* get_regional_pipeline derives for that datum and region, also when the
\* vertical CRS came from text that carried pipelines already
C20_StoredPipelinesAreDerived ==
    (/\ crs_call.op \in {"set_crs", "update_regions"}
     /\ crs_call.raised = ""
     /\ vcrs.vert.kind = "vertical"
     /\ ListHas(DatumKeys, vcrs.vyperdatum_str)
     /\ vcrs.vyperdatum_str # <<"ellipse">>
     /\ Len(vcrs.regions) > 0)
    => \A i \in 1..Len(vcrs.regions) :
          LET derived == DerivedPipeline(vcrs.vyperdatum_str, vcrs.regions[i])
          IN  derived.kind = "ok" /\ PipelineOf(vcrs, vcrs.regions[i]) = derived.val

-----------------------------------------------------------------------------
(* What the claim about the region catalog is stated with *)

\* every region of the list has a polygon file, a geoid name and a geoid frame
RegionsResolvable(self) ==
    \A k \in 1..Len(self.regions) :
        /\ self.regions[k] \in DOMAIN self.polygon_files
        /\ dd_get_geoid_name(self, self.regions[k]).kind = "ok"
        /\ dd_get_geoid_frame(self, self.regions[k]).kind = "ok"

\* every region listed under a key is in regions, polygon_files and extended_region
LookupRegionsPresent(self) ==
    \A key \in DOMAIN self.extended_region_lookup :
        \A k \in 1..Len(self.extended_region_lookup[key]) :
            LET region == self.extended_region_lookup[key][k]
            IN  /\ InList(self.regions, region)
                /\ region \in DOMAIN self.polygon_files
                /\ region \in DOMAIN self.extended_region

\* C21: after any sequence of set_external_region_directory and
\* remove_external_region_directory calls, every region of the region list has
\* a polygon file, a geoid name and a geoid frame, and every region listed
\* under a key of extended_region_lookup is in regions, polygon_files and
\* extended_region
C21_CatalogConsistent ==
    RegionsResolvable(datum_data) /\ LookupRegionsPresent(datum_data)

-----------------------------------------------------------------------------
(* What the claim about the points a region writes is stated with *)

\* C22: in transform_dataset a region never writes a point whose z under that
\* region's pipeline is infinite or NaN: the region index of a point is never
\* that of a pass that gave it a non-finite z, and a point no pass gave a
\* finite z comes back NaN with region index -1
C22_NonFiniteNeverWritten ==
    \A n \in 1..Len(touts) : \A i \in 1..Len(touts[n].region) :
        LET t == touts[n]
        IN  /\ \A k \in 1..Len(t.new_zs) :
                   (Len(t.new_zs[k]) > 0 /\ ~Finite(t.new_zs[k][i])) => t.region[i] # k - 1
            /\ PassesFinite(t, i) = {} => (t.z[i] = NaN /\ t.region[i] = -1)

-----------------------------------------------------------------------------
(* What the claims about the compiled pipelines are stated with *)

\* the grids a pipeline string names
GridsOf(pipeline) == GridList(PipelineParts(pipeline))

\* get_regional_pipeline returned for two registered names
CompiledForRegistered ==
    /\ Returned("get_regional_pipeline")
    /\ StrLower(pcall.from_datum) \in DatumKeySet
    /\ StrLower(pcall.to_datum) \in DatumKeySet

\* C23: for every pipeline string get_regional_pipeline returns,
\* is_valid_regional_pipeline returns a boolean, true exactly when every grid
\* the pipeline names is found, and raises nothing
C23_FeasibilityIsBoolean ==
    (Returned("get_regional_pipeline") /\ pcall.result.kind = "ok") =>
        LET valid == is_valid_regional_pipeline(pcall.result.val)
        IN  /\ valid.kind = "ok"
            /\ valid.val <=> (\A i \in 1..Len(GridsOf(pcall.result.val)) :
                                 GridsOf(pcall.result.val)[i] \notin MissingGrids)

\* C24: get_regional_pipeline leaves the datum_definition table as it was,
\* every datum with its step list, and 'ellipse' maps to the empty list
C24_TableUnchanged ==
    /\ datum_definition = DatumDefinitionTable
    /\ datum_definition[<<"ellipse">>] = <<>>

\* a compile returned a pipeline after compare_datums removed common steps
C24_Witness ==
    /\ CompiledForRegistered
    /\ pcall.result.kind = "ok"
    /\ Len(compare_datums(DatumDefinitionTable[StrLower(pcall.from_datum)],
                          DatumDefinitionTable[StrLower(pcall.to_datum)])[1])
           < Len(DatumDefinitionTable[StrLower(pcall.from_datum)])

\* C27: a pipeline get_regional_pipeline returns for two registered names
\* holds at least one grid-shift step, and two names with the same step list
\* give the no-op result None
C27_PipelineHasAStep ==
    CompiledForRegistered =>
        /\ pcall.result.kind = "ok" => Len(GridsOf(pcall.result.val)) > 0
        /\ DatumDefinitionTable[StrLower(pcall.from_datum)]
               = DatumDefinitionTable[StrLower(pcall.to_datum)] => pcall.result = None

-----------------------------------------------------------------------------
(* What the claim about mixed region lists is stated with *)

\* the regions of the list do not all stand on the same geoid model
MixedGeoids(regions) ==
    \E i, j \in 1..Len(regions) : get_geoid_name(regions[i]) # get_geoid_name(regions[j])

\* C25: no sequence of set_crs and update_regions calls leaves a valid CRS
\* whose region list mixes regions of different geoid models, whatever the
\* vertical datum
C25_MixedRegionsRejected ==
    MixedGeoids(vcrs.regions) => ~vcrs.is_valid

-----------------------------------------------------------------------------
(* What the claim about apply_sep is stated with *)

\* the raster has a layer named 'uncertainty' or 'vertical uncertainty'
HasUncertaintyLayer(self) ==
    \E i \in 1..Len(self.layernames) :
        LayerLower(self.layernames[i]) \in {"uncertainty", "vertical uncertainty"}

\* C26: in every cell the separation covers, the uncertainty layer apply_sep
\* returns is the separation uncertainty alone when the raster has no layer
\* named 'uncertainty' or 'vertical uncertainty', and that layer plus the
\* separation uncertainty when it has one, at any band index including 0
C26_UncertaintyLayer ==
    (applied.op = "apply_sep" /\ applied.raised = "") =>
        \A j \in 1..NumCells :
            vraster.raster_vdatum_sep.val[j].k = "num" =>
                applied.layers[2].val[j] =
                    IF HasUncertaintyLayer(vraster)
                    THEN CellAdd(PyItem(vraster.layers, get_uncertainty_layer_index(vraster))[j],
                                 vraster.raster_vdatum_uncertainty.val[j])
                    ELSE vraster.raster_vdatum_uncertainty.val[j]

-----------------------------------------------------------------------------
(* What the claim about the ellipsoid-geoid sigma is stated with *)

\* the geoid models named in the pipeline string of the output CRS
NamedGeoids(t) == GeoidsIn(geoid_possibilities, t.self.out_crs.pipeline_str)

\* the sigmas _get_output_uncertainty adds for the region and the output layer
RegionSigmas(t, k) ==
    LET outdatum == t.self.out_crs.vyperdatum_str
        flat == {<<"ellipse">>, <<"geoid">>, <<"navd88">>}
    IN  (IF outdatum \notin flat THEN Uncertainty(t.regions[k], <<"tss">>) ELSE 0)
        + (IF outdatum \notin (flat \cup {<<"tss">>})
           THEN Uncertainty(t.regions[k], TidalLayer(outdatum)) ELSE 0)

\* C28: when the input datum is the ellipsoid and the output is not, the
\* ellipsoid-geoid sigma in the uncertainty transform_dataset assigns is the sigma
\* of the one geoid model named in the pipeline string of the output CRS.
C28_SigmaOfNamedGeoid ==
    \A n \in 1..Len(touts) : \A k \in 1..Len(touts[n].new_zs) :
        LET t == touts[n]
        IN  ( /\ t.raised = "" /\ Len(t.unc) > 0 /\ Len(t.new_zs[k]) > 0
              /\ t.self.in_crs.vyperdatum_str = <<"ellipse">>
              /\ t.self.out_crs.vyperdatum_str # <<"ellipse">>
              /\ Len(NamedGeoids(t)) = 1 ) =>
                t.uncs[k] = Num(GeoidSigma(NamedGeoids(t)[1]) + RegionSigmas(t, k))

-----------------------------------------------------------------------------
(* What the claim about assigning VyperCore.regions is stated with *)

\* the step assigns plan.found to the regions of the orchestrator
AssignStep == NextIs({"assign"}) /\ plan' # plan

\* C29: assigning a list to VyperCore.regions completes without error, and
\* afterwards the regions of the orchestrator, of in_crs and of out_crs are that list.
C29_AssignedRegionsPropagate ==
    [][AssignStep =>
        /\ regions_setter(vcore, plan.found).raised = ""
        /\ vcore'.regions = plan.found
        /\ vcore'.in_crs.regions = plan.found
        /\ vcore'.out_crs.regions = plan.found]_vars

-----------------------------------------------------------------------------
(* What the claim about a failing set_crs is stated with *)

\* the step is a set_crs call that raises on its tuple or on one of its entries
SetCrsEntryFailure ==
    /\ crs_call'.n = crs_call.n + 1
    /\ crs_call'.op = "set_crs"
    /\ crs_call'.raised # ""
    /\ Len(crs_call'.new_crs) > 2 \/ set_entries(vcrs, crs_call'.new_crs).raised # ""

\* C30: a set_crs call that raises on a tuple longer than two, on an entry that is
\* neither a string nor an integer or on an unsupported CRS leaves the horizontal
\* component, the vertical component, the region list and is_valid as they were.
C30_SetCrsAtomicOnFailure ==
    [][SetCrsEntryFailure =>
        /\ vcrs'.hori = vcrs.hori
        /\ vcrs'.vert = vcrs.vert
        /\ vcrs'.regions = vcrs.regions
        /\ vcrs'.is_valid = vcrs.is_valid]_vars

====
